---- MODULE Spec2Model ----
(***************************************************************************)
(* Model of the memory-bank server in src/index.js: the two-level          *)
(* concurrency gate of the /chat handler (class Semaphore, globalSem,      *)
(* getUserSem), and the per-identity memory bank (saveUserMemory,          *)
(* pruneMemoryBank, getRelevantMemoryLines).                               *)
(*                                                                         *)
(* The specifications share the variables: Spec and FairSpec run the      *)
(* gate; SpecBank runs saveUserMemory and pruneMemoryBank on one bank over *)
(* time; SpecPrune and SpecRecall apply pruneMemoryBank, saveUserMemory    *)
(* and getRelevantMemoryLines to banks as a file may hold them.            *)
(*                                                                         *)
(* Units.  A confidence is a whole number of hundredths (0.98 is 98), a    *)
(* time is a whole number of days, a string is a tuple of characters.      *)
(*                                                                         *)
(* Scheduling.  The server is one cooperatively scheduled process: a step  *)
(* of the model is the code a request runs between two suspension points   *)
(* (an await).  A waiter whose promise release() has resolved resumes in a *)
(* later step of its own; the order in which ready continuations and new   *)
(* calls run is left open, as the Semaphore class does not control it.     *)
(***************************************************************************)
EXTENDS Integers, Sequences, FiniteSets, TLC

VARIABLES
    pc,        \* position of each /chat request in the handler
    userOf,    \* identity (userId) of each request in flight, 0 when none
    permits,   \* per request: the acquire/release events of its current run
    outcome,   \* per request: how its last run left the handler
    gCurrent,  \* globalSem.current
    gQueue,    \* globalSem.queue (resolvers, by request)
    userSems,  \* keys of the userSems map
    uCurrent,  \* userSems.get(u).current
    uQueue,    \* userSems.get(u).queue
    items,     \* state.memoryBank.items of one identity
    byKey,     \* vectors.byKey of that identity
    now,       \* Date.now(), in days
    ticks,     \* how often the clock has advanced
    merged,    \* per key: saveUserMemory calls made for it
    dropped,   \* keys whose item pruneMemoryBank has removed at some time
    loaded,    \* a bank as loadUser read it from the identity's file
    kept,      \* that bank after the calls made on it
    phase,     \* which call was made on it last
    rBank,     \* getRelevantMemoryLines: state.memoryBank.items
    rVectors,  \* getRelevantMemoryLines: vectors.byKey
    rQuery,    \* what getEmbedding(queryText) resolves to
    rOracle,   \* what getEmbedding resolves to for each item
    rMax,      \* getRelevantMemoryLines: maxLines
    rPicked,   \* getRelevantMemoryLines: `picked` when it returns
    rOut,      \* getRelevantMemoryLines: the text returned
    rPhase,    \* whether getRelevantMemoryLines has been called
    rAsked,    \* the keys of the items whose embedding it asked the provider for
    fUser,     \* what the identity's bank file holds
    fVectors,  \* what the identity's vector file holds
    fOut,      \* how far the load step of a request has come
    vBefore,   \* vectors.byKey when saveVectors is called
    vAfter,    \* vectors.byKey when saveVectors returns
    vFile,     \* the byKey of the vector file
    vPhase,    \* whether saveVectors has been called
    steps,     \* per request: the calls its handler has made, in order
    disk,      \* per path: the document the file holds, or NoFile
    dStage,    \* per writer: how far its saveVectors and saveUser have come
    dRunning,  \* the writer whose synchronous code runs, or 0
    dSaves,    \* the saves begun so far
    dUp,       \* whether the process is running
    call,      \* one function called by itself: its arguments and its result
    daily      \* the day keys of an identity's daily jobs and their provider calls

gateVars == <<pc, userOf, permits, outcome, gCurrent, gQueue, userSems, uCurrent, uQueue>>

bankVars == <<items, byKey, now, ticks, merged, dropped>>

pruneVars == <<loaded, kept, phase>>

recallVars == <<rBank, rVectors, rQuery, rOracle, rMax, rPicked, rOut, rPhase, rAsked>>

loadVars == <<fUser, fVectors, fOut>>

cacheVars == <<vBefore, vAfter, vFile, vPhase>>

diskVars == <<disk, dStage, dRunning, dSaves, dUp>>

vars ==
    <<gateVars, bankVars, pruneVars, recallVars, loadVars, cacheVars, steps, diskVars,
      call, daily>>

\* What the steps of one part of the model leave alone.
notGate == <<bankVars, pruneVars, recallVars, loadVars, cacheVars, diskVars, call, daily>>
notBank == <<gateVars, pruneVars, recallVars, loadVars, cacheVars, steps, diskVars, call, daily>>
notPrune == <<gateVars, bankVars, recallVars, loadVars, cacheVars, steps, diskVars, call, daily>>
notRecall == <<gateVars, bankVars, pruneVars, loadVars, cacheVars, steps, diskVars, call, daily>>
notLoad == <<gateVars, bankVars, pruneVars, recallVars, cacheVars, steps, diskVars, call, daily>>
notCache == <<gateVars, bankVars, pruneVars, recallVars, loadVars, steps, diskVars, call, daily>>
notDisk == <<gateVars, bankVars, pruneVars, recallVars, loadVars, cacheVars, steps, call, daily>>
notCall ==
    <<gateVars, bankVars, pruneVars, recallVars, loadVars, cacheVars, steps, diskVars, daily>>
notDaily ==
    <<gateVars, bankVars, pruneVars, recallVars, loadVars, cacheVars, steps, diskVars, call>>

----------------------------------------------------------------------------
(* Bounds of the model.  GLOBAL_CONCURRENCY (default 10) and MAX_MEM_ITEMS   *)
(* (350) are the program's constants, scaled down.                          *)

NumRequests == 4
NumUsers == 2
GLOBAL_CONCURRENCY == 2
MAX_MEM_ITEMS == 2
MaxMerges == 5
MaxTicks == 1
MaxLoaded == 4
MaxBank == 3
MaxLines == 2

(* Program constants. *)
USER_CONCURRENCY == 1
MAX_EMBED_ITEMS == 120

Requests == 1..NumRequests
Users == 1..NumUsers

Max2(a, b) == IF a >= b THEN a ELSE b
Min2(a, b) == IF a <= b THEN a ELSE b

----------------------------------------------------------------------------
(* class Semaphore *)

\* acquire(): the test `this.current < this.max` that admits at once.
SemAdmits(current, max) == current < max

\* A release that leaves this.current as it is.
SemKeepsCount(current, max) == current

\* release(): the new value of this.current.
SemReleased(current, max) == Max2(0, Min2(max, current - 1))

\* A release that shifts the queue and forgets to call the resolver.
SemWokenNobody(queue) == {}

\* release(): `const next = this.queue.shift(); if (next) next();`
\* the requests whose promise is resolved by this release.
SemWoken(queue) == IF queue = <<>> THEN {} ELSE {Head(queue)}

SemShifted(queue) == IF queue = <<>> THEN <<>> ELSE Tail(queue)

----------------------------------------------------------------------------
(* app.post("/chat") *)

\* Requests are numbered in the order in which they reach the handler.
IsNextRequest(r) == pc[r] = "idle" /\ \A q \in 1..(r - 1) : pc[q] # "idle"

GateInit ==
    /\ pc = [r \in Requests |-> "idle"]
    /\ userOf = [r \in Requests |-> 0]
    /\ permits = [r \in Requests |-> <<>>]
    /\ outcome = [r \in Requests |-> "none"]
    /\ gCurrent = 0
    /\ gQueue = <<>>
    /\ userSems = {}
    /\ uCurrent = [u \in Users |-> 0]
    /\ uQueue = [u \in Users |-> <<>>]

\* The early returns before the gate: empty message, or no provider client.
ChatEarlyReturn(r) ==
    /\ IsNextRequest(r)
    /\ pc' = [pc EXCEPT ![r] = "done"]
    /\ userOf' = [userOf EXCEPT ![r] = 0]
    /\ permits' = [permits EXCEPT ![r] = <<>>]
    /\ outcome' = [outcome EXCEPT ![r] = "early"]
    /\ UNCHANGED <<gCurrent, gQueue, userSems, uCurrent, uQueue>>
    /\ UNCHANGED notGate

\* A request of identity u reaches `await globalSem.acquire()`.
ChatArrive(r) ==
    /\ IsNextRequest(r)
    /\ \E u \in Users :
        /\ userOf' = [userOf EXCEPT ![r] = u]
        /\ outcome' = [outcome EXCEPT ![r] = "none"]
        /\ IF SemAdmits(gCurrent, GLOBAL_CONCURRENCY)
             THEN /\ gCurrent' = gCurrent + 1
                  /\ pc' = [pc EXCEPT ![r] = "gRet"]
                  /\ permits' = [permits EXCEPT ![r] = <<"gAcq">>]
                  /\ UNCHANGED gQueue
             ELSE /\ gQueue' = Append(gQueue, r)
                  /\ pc' = [pc EXCEPT ![r] = "gWait"]
                  /\ permits' = [permits EXCEPT ![r] = <<>>]
                  /\ UNCHANGED gCurrent
    /\ UNCHANGED <<userSems, uCurrent, uQueue>>
    /\ UNCHANGED notGate

\* A woken waiter of globalSem resumes after its await: `this.current++`.
GlobalResume(r) ==
    /\ pc[r] = "gWoken"
    /\ gCurrent' = gCurrent + 1
    /\ pc' = [pc EXCEPT ![r] = "gRet"]
    /\ permits' = [permits EXCEPT ![r] = Append(@, "gAcq")]
    /\ UNCHANGED <<userOf, outcome, gQueue, userSems, uCurrent, uQueue>>
    /\ UNCHANGED notGate

\* `const userSem = getUserSem(userId); await userSem.acquire();`
ChatGetUserSem(r) ==
    /\ pc[r] = "gRet"
    /\ LET u == userOf[r] IN
        /\ userSems' = userSems \cup {u}
        /\ IF SemAdmits(uCurrent[u], USER_CONCURRENCY)
             THEN /\ uCurrent' = [uCurrent EXCEPT ![u] = @ + 1]
                  /\ pc' = [pc EXCEPT ![r] = "uRet"]
                  /\ permits' = [permits EXCEPT ![r] = Append(@, "uAcq")]
                  /\ UNCHANGED uQueue
             ELSE /\ uQueue' = [uQueue EXCEPT ![u] = Append(@, r)]
                  /\ pc' = [pc EXCEPT ![r] = "uWait"]
                  /\ UNCHANGED <<uCurrent, permits>>
    /\ UNCHANGED <<userOf, outcome, gCurrent, gQueue>>
    /\ UNCHANGED notGate

\* A woken waiter of a user semaphore resumes after its await.
UserResume(r) ==
    /\ pc[r] = "uWoken"
    /\ uCurrent' = [uCurrent EXCEPT ![userOf[r]] = @ + 1]
    /\ pc' = [pc EXCEPT ![r] = "uRet"]
    /\ permits' = [permits EXCEPT ![r] = Append(@, "uAcq")]
    /\ UNCHANGED <<userOf, outcome, gCurrent, gQueue, userSems, uQueue>>
    /\ UNCHANGED notGate

\* The order of the two releases in the finally block.
FinallyOrder == <<"uRel", "gRel">>

\* `finally { userSem.release(); globalSem.release(); }` of request r, which
\* leaves the handler with outcome `how`.
ChatFinally(r, how) ==
    LET u == userOf[r]
        wokenU == SemWoken(uQueue[u])
        wokenG == SemWoken(gQueue)
    IN  /\ uCurrent' = [uCurrent EXCEPT ![u] = SemReleased(@, USER_CONCURRENCY)]
        /\ uQueue' = [uQueue EXCEPT ![u] = SemShifted(@)]
        /\ gCurrent' = SemReleased(gCurrent, GLOBAL_CONCURRENCY)
        /\ gQueue' = SemShifted(gQueue)
        /\ pc' = [q \in Requests |->
                    IF q = r THEN "done"
                    ELSE IF q \in wokenU THEN "uWoken"
                    ELSE IF q \in wokenG THEN "gWoken"
                    ELSE pc[q]]
        /\ permits' = [permits EXCEPT ![r] = @ \o FinallyOrder]
        /\ outcome' = [outcome EXCEPT ![r] = how]
        /\ userOf' = [userOf EXCEPT ![r] = 0]
        /\ UNCHANGED userSems
        /\ UNCHANGED notGate

\* An exception that leaves the handler without running the finally block.
ChatThrowsPastFinally(r) ==
    /\ pc' = [pc EXCEPT ![r] = "done"]
    /\ outcome' = [outcome EXCEPT ![r] = "loadThrew"]
    /\ UNCHANGED <<userOf, permits, gCurrent, gQueue, userSems, uCurrent, uQueue>>
    /\ UNCHANGED notGate

\* An exception inside the try block before the first await (loadUser,
\* pruneMemoryBank, loadVectors): control goes to the finally block.
ChatLoadThrows(r) == ChatFinally(r, "loadThrew")

\* An exception of saveVectors or saveUser: control goes to the finally block.
ChatSaveThrows(r) == ChatFinally(r, "saveThrew")

\* Entering the try block: loadUser, pruneMemoryBank, loadVectors, then
\* getRelevantMemoryLines up to its await of the embedding provider.
ChatLoad(r) ==
    /\ pc[r] = "uRet"
    /\ \/ /\ pc' = [pc EXCEPT ![r] = "recall"]
          /\ UNCHANGED <<userOf, permits, outcome, gCurrent, gQueue, userSems,
                         uCurrent, uQueue>>
          /\ UNCHANGED notGate
       \/ ChatLoadThrows(r)

\* The embedding calls of getRelevantMemoryLines have returned (a failure is
\* caught in getEmbedding); the handler awaits the chat provider.
ChatRecalled(r) ==
    /\ pc[r] = "recall"
    /\ pc' = [pc EXCEPT ![r] = "reply"]
    /\ UNCHANGED <<userOf, permits, outcome, gCurrent, gQueue, userSems,
                   uCurrent, uQueue>>
    /\ UNCHANGED notGate

\* The chat provider has answered, or has failed: the inner catch sets
\* reply = VOICE_FAIL and the handler goes on.  It then awaits
\* runQuickMemoryCapture, the daily jobs and the pending merges.
ChatReplied(r) ==
    /\ pc[r] = "reply"
    /\ pc' = [pc EXCEPT ![r] = "merge"]
    /\ \E answered \in BOOLEAN :
        outcome' = [outcome EXCEPT ![r] = IF answered THEN @ ELSE "voiceFail"]
    /\ UNCHANGED <<userOf, permits, gCurrent, gQueue, userSems, uCurrent, uQueue>>
    /\ UNCHANGED notGate

\* The merges are done: saveVectors, saveUser, res.json, then the finally block.
ChatSave(r) ==
    /\ pc[r] = "merge"
    /\ \/ ChatFinally(r, IF outcome[r] = "voiceFail" THEN "voiceFail" ELSE "ok")
       \/ ChatSaveThrows(r)

GateNext ==
    \E r \in Requests :
        \/ ChatEarlyReturn(r)
        \/ ChatArrive(r)
        \/ GlobalResume(r)
        \/ ChatGetUserSem(r)
        \/ UserResume(r)
        \/ ChatLoad(r)
        \/ ChatRecalled(r)
        \/ ChatReplied(r)
        \/ ChatSave(r)

----------------------------------------------------------------------------
(* The calls of a handler, in the order in which it makes them.  The actions *)
(* are those of the gate; each also appends to steps[r] what request r calls *)
(* in that step.                                                             *)

\* The candidates one request merges: in the program at most one captured by
\* runQuickMemoryCapture and five pending from the daily reflection.
MaxCandidates == 2

\* The try block before its first await.
LoadSteps == <<"loadUser", "pruneMemoryBank", "loadVectors">>

\* The save in some other order.
SaveStepsSwapped == <<"saveUser", "saveVectors">>

\* The end of the try block.
SaveSteps == <<"saveVectors", "saveUser">>

\* One saveUserMemory call of the handler (its callers pass content that is
\* not empty): it pushes or updates the item, then it prunes.
MergeSteps == <<"saveUserMemory", "pruneMemoryBank">>

RECURSIVE Repeated(_, _)
Repeated(calls, n) == IF n = 0 THEN <<>> ELSE calls \o Repeated(calls, n - 1)

\* The saveUserMemory calls of a request, the captured candidate first.
MergeRuns == {Repeated(MergeSteps, n) : n \in 0..MaxCandidates}

StepsIdle == steps = [r \in Requests |-> <<>>]

Did(r, calls) == steps' = [steps EXCEPT ![r] = @ \o calls]

TracedEarlyReturn(r) == ChatEarlyReturn(r) /\ Did(r, <<>>)

TracedArrive(r) ==
    ChatArrive(r) /\ Did(r, IF pc'[r] = "gRet" THEN <<"gAcq">> ELSE <<>>)

TracedGlobalResume(r) == GlobalResume(r) /\ Did(r, <<"gAcq">>)

TracedGetUserSem(r) ==
    ChatGetUserSem(r) /\ Did(r, IF pc'[r] = "uRet" THEN <<"uAcq">> ELSE <<>>)

TracedUserResume(r) == UserResume(r) /\ Did(r, <<"uAcq">>)

\* The load, then the call of getRelevantMemoryLines; or one of the three
\* load calls throws.
TracedLoad(r) ==
    /\ ChatLoad(r)
    /\ IF pc'[r] = "recall"
         THEN Did(r, LoadSteps \o <<"getRelevantMemoryLines">>)
         ELSE \E n \in 1..Len(LoadSteps) :
                Did(r, SubSeq(LoadSteps, 1, n) \o FinallyOrder)

\* `await openai.chat.completions.create(...)`
TracedRecalled(r) == ChatRecalled(r) /\ Did(r, <<"reply">>)

\* The reply is there; runQuickMemoryCapture awaits the extraction.
TracedReplied(r) == ChatReplied(r) /\ Did(r, <<>>)

\* The merges of the captured and of the pending candidates, saveVectors,
\* saveUser, and the finally block; or one of the two saves throws.
TracedSave(r) ==
    /\ ChatSave(r)
    /\ \E run \in MergeRuns :
        IF outcome'[r] = "saveThrew"
          THEN \E n \in 1..Len(SaveSteps) :
                 Did(r, run \o SubSeq(SaveSteps, 1, n) \o FinallyOrder)
          ELSE Did(r, run \o SaveSteps \o FinallyOrder)

StepsNext ==
    \E r \in Requests :
        \/ TracedEarlyReturn(r)
        \/ TracedArrive(r)
        \/ TracedGlobalResume(r)
        \/ TracedGetUserSem(r)
        \/ TracedUserResume(r)
        \/ TracedLoad(r)
        \/ TracedRecalled(r)
        \/ TracedReplied(r)
        \/ TracedSave(r)

----------------------------------------------------------------------------
(* Text.  A string is a tuple of one-character strings. *)

\* null where a number is expected: the code tests these values for
\* truthiness only (`ttl ? ... : null`, `!m.expiresAt`), and no timestamp is 0.
NULL == 0

\* What getEmbedding resolves to: null, or the provider's array.
NoEmbedding == [isNull |-> TRUE, vec |-> <<>>]
Embedding(v) == [isNull |-> FALSE, vec |-> v]

UpperLetters == <<"A","B","C","D","E","F","G","H","I","J","K","L","M",
                  "N","O","P","Q","R","S","T","U","V","W","X","Y","Z">>
LowerLetters == <<"a","b","c","d","e","f","g","h","i","j","k","l","m",
                  "n","o","p","q","r","s","t","u","v","w","x","y","z">>

\* One character of String.prototype.toLowerCase.
LowerOf ==
    [c \in {UpperLetters[i] : i \in 1..Len(UpperLetters)} |->
        LowerLetters[CHOOSE i \in 1..Len(UpperLetters) : UpperLetters[i] = c]]

LowerChar(c) == IF c \in DOMAIN LowerOf THEN LowerOf[c] ELSE c

ToLowerCase(s) == [i \in 1..Len(s) |-> LowerChar(s[i])]

\* The characters the regular expression \s and trim() treat as white space.
IsSpace(c) == c \in {" ", "\t", "\n"}

RECURSIVE TrimStart(_)
TrimStart(s) == IF s # <<>> /\ IsSpace(Head(s)) THEN TrimStart(Tail(s)) ELSE s

RECURSIVE TrimEnd(_)
TrimEnd(s) ==
    IF s # <<>> /\ IsSpace(s[Len(s)]) THEN TrimEnd(SubSeq(s, 1, Len(s) - 1)) ELSE s

\* String.prototype.trim
Trim(s) == TrimEnd(TrimStart(s))

\* replace(/\s+/g, " ")
RECURSIVE CollapseSpaces(_)
CollapseSpaces(s) ==
    IF s = <<>> THEN <<>>
    ELSE IF IsSpace(Head(s)) THEN <<" ">> \o CollapseSpaces(TrimStart(s))
    ELSE <<Head(s)>> \o CollapseSpaces(Tail(s))

\* String.prototype.includes
Includes(t, p) ==
    \E i \in 0..(Len(t) - Len(p)) : SubSeq(t, i + 1, i + Len(p)) = p

normText(s) == ToLowerCase(CollapseSpaces(Trim(s)))

clamp01(n) == Max2(0, Min2(100, n))

clampInt(n, min, max) == Max2(min, Min2(max, n))

ALLOWED_EMOTIONS ==
    {"neutral", "calm", "hopeful", "motivated", "grateful", "joyful", "proud",
     "tired", "stressed", "anxious", "sad", "lonely", "frustrated", "angry",
     "confused"}

normalizeEmotion(e) == IF e \in ALLOWED_EMOTIONS THEN e ELSE "neutral"

----------------------------------------------------------------------------
(* Category names and the phrases of initialPermanence, as text. *)

S_identity == <<"i","d","e","n","t","i","t","y">>
S_values == <<"v","a","l","u","e","s">>
S_people == <<"p","e","o","p","l","e">>
S_goals == <<"g","o","a","l","s">>
S_habits == <<"h","a","b","i","t","s">>
S_preferences == <<"p","r","e","f","e","r","e","n","c","e","s">>
S_other == <<"o","t","h","e","r">>
S_myDaughter == <<"m","y"," ","d","a","u","g","h","t","e","r">>
S_mySon == <<"m","y"," ","s","o","n">>
S_myWife == <<"m","y"," ","w","i","f","e">>
S_myHusband == <<"m","y"," ","h","u","s","b","a","n","d">>
S_workingOn == <<"w","o","r","k","i","n","g"," ","o","n">>
S_myGoal == <<"m","y"," ","g","o","a","l">>

----------------------------------------------------------------------------
(* The memory bank *)

initialPermanence(category, content) ==
    LET c == ToLowerCase(category)
        t == normText(content)
    IN  IF c = S_identity \/ c = S_values \/ c = S_people THEN "core"
        ELSE IF c = S_goals \/ c = S_habits \/ c = S_preferences THEN "sticky"
        ELSE IF \/ Includes(t, S_myDaughter) \/ Includes(t, S_mySon)
                \/ Includes(t, S_myWife) \/ Includes(t, S_myHusband)
          THEN "core"
        ELSE IF Includes(t, S_workingOn) \/ Includes(t, S_myGoal) THEN "sticky"
        ELSE "ephemeral"

\* A time to live that gives core items the ephemeral one.
TtlWithoutCore(permanence) == IF permanence = "sticky" THEN 180 ELSE 14

ttlDaysFor(permanence) ==
    IF permanence = "core" THEN NULL
    ELSE IF permanence = "sticky" THEN 180
    ELSE 14

\* A promotion that makes an item sticky one merge later.
PromoteFromThird(permanence, timesSeen) ==
    IF permanence = "core" THEN "core"
    ELSE IF timesSeen >= 4 THEN "core"
    ELSE IF timesSeen >= 3 THEN "sticky"
    ELSE permanence

\* A promotion that makes an item core one merge later.
PromoteLate(permanence, timesSeen) ==
    IF permanence = "core" THEN "core"
    ELSE IF timesSeen >= 5 THEN "core"
    ELSE IF timesSeen >= 2 THEN "sticky"
    ELSE permanence

\* A promotion that looks at timesSeen alone.
PromoteBySeenOnly(permanence, timesSeen) ==
    IF timesSeen >= 4 THEN "core"
    ELSE IF timesSeen >= 2 THEN "sticky"
    ELSE permanence

maybePromote(permanence, timesSeen) ==
    IF permanence = "core" THEN "core"
    ELSE IF timesSeen >= 4 THEN "core"
    ELSE IF timesSeen >= 2 THEN "sticky"
    ELSE permanence

\* The rank `pa`, `pb` of the sort comparators.
TierRank(m) ==
    IF m.permanence = "core" THEN 3 ELSE IF m.permanence = "sticky" THEN 2 ELSE 1

\* A filter that treats core items as it treats the others.
UnexpiredByDate(m, t) ==
    IF m.content = <<>> THEN FALSE
    ELSE IF m.expiresAt = NULL THEN TRUE
    ELSE t < m.expiresAt

\* A filter that keeps an item on the day it expires.
UnexpiredInclusive(m, t) ==
    IF m.content = <<>> THEN FALSE
    ELSE IF m.permanence = "core" THEN TRUE
    ELSE IF m.expiresAt = NULL THEN TRUE
    ELSE t <= m.expiresAt

\* The filter of pruneMemoryBank (and of getRelevantMemoryLines): m is kept.
Unexpired(m, t) ==
    IF m.content = <<>> THEN FALSE
    ELSE IF m.permanence = "core" THEN TRUE
    ELSE IF m.expiresAt = NULL THEN TRUE
    ELSE t < m.expiresAt

\* The comparator of pruneMemoryBank is negative: a sorts before b.
PruneBefore(a, b) ==
    IF TierRank(b) # TierRank(a) THEN TierRank(b) - TierRank(a) < 0
    ELSE IF clamp01(b.confidence) # clamp01(a.confidence)
      THEN clamp01(b.confidence) - clamp01(a.confidence) < 0
    ELSE b.timesSeen - a.timesSeen < 0

\* A sort that leaves the array as it is.
PruneUnsorted(s) == s

\* Array.prototype.sort with that comparator: a stable sort.
RECURSIVE PruneSort(_)
PruneSort(s) ==
    IF s = <<>> THEN <<>>
    ELSE LET x == s[Len(s)]
             sorted == PruneSort(SubSeq(s, 1, Len(s) - 1))
             k == Cardinality({i \in 1..Len(sorted) : ~PruneBefore(x, sorted[i])})
         IN  SubSeq(sorted, 1, k) \o <<x>> \o SubSeq(sorted, k + 1, Len(sorted))

\* Array.prototype.slice(0, n)
SliceTo(s, n) == SubSeq(s, 1, Min2(n, Len(s)))

\* A prune that filters and sorts, and does not cut.
PruneWithoutCap(its, t) == PruneSort(SelectSeq(its, LAMBDA m : Unexpired(m, t)))

pruneMemoryBank(its, t) ==
    SliceTo(PruneSort(SelectSeq(its, LAMBDA m : Unexpired(m, t))), MAX_MEM_ITEMS)

\* The vector cache.
getVectorFromCache(vectors, key) ==
    IF key \in DOMAIN vectors /\ vectors[key] # <<>>
      THEN Embedding(vectors[key])
      ELSE NoEmbedding

setVectorInCache(vectors, key, emb) ==
    IF emb.isNull \/ emb.vec = <<>> THEN vectors
    ELSE [k \in DOMAIN vectors \cup {key} |-> IF k = key THEN emb.vec ELSE vectors[k]]

\* The confidence of an item after a merge with incoming confidence conf.
MergedConfidence(old, conf) == Min2(98, Max2(old, Max2(conf, old + 5)))

\* An expiry that is not anchored to the time of the merge.
ExpiryUnanchored(permanence, t) ==
    IF ttlDaysFor(permanence) = NULL THEN NULL ELSE ttlDaysFor(permanence)

\* `expiresAt: ttl ? now + ttl * 86400000 : null`
ExpiryFor(permanence, t) ==
    IF ttlDaysFor(permanence) = NULL THEN NULL ELSE t + ttlDaysFor(permanence)

\* `${cat}::${normText(content)}`; no category of the model contains "::".
KeyOf(cat, content) == <<cat, normText(content)>>

\* A lookup that never finds the key.
FindNothing(its, key) == 0

\* The first index of its whose item has this key, 0 when there is none.
FindKey(its, key) ==
    IF \E i \in 1..Len(its) : its[i].key = key
      THEN CHOOSE i \in 1..Len(its) :
             /\ its[i].key = key
             /\ \A j \in 1..(i - 1) : its[j].key # key
      ELSE 0

\* The emotion and intensity of an existing item after a merge.
MergedEmotion(item, emo, inten) ==
    IF item.emotion = "neutral" THEN [emotion |-> emo, intensity |-> inten]
    ELSE IF emo # "neutral" /\ inten >= item.intensity
      THEN [emotion |-> emo, intensity |-> inten]
    ELSE [emotion |-> item.emotion, intensity |-> item.intensity]

\* saveUserMemory(state, vectors, category, text, confidence, emotion, intensity)
\* at time t, the embedding provider answering emb when it is asked.
saveUserMemory(its, vectors, category, text, confidence, emotion, intensity, t, emb) ==
    LET content == Trim(text)
        cat == ToLowerCase(IF category = <<>> THEN S_other ELSE category)
        conf == clamp01(confidence)
        key == KeyOf(cat, content)
        at == FindKey(its, key)
        emo == normalizeEmotion(emotion)
        inten == clampInt(intensity, 1, 3)
    IN  IF content = <<>> THEN [items |-> its, byKey |-> vectors]
        ELSE IF at = 0 THEN
            LET perm == initialPermanence(cat, content)
                item == [key |-> key, category |-> cat, content |-> content,
                         permanence |-> perm, confidence |-> conf, timesSeen |-> 1,
                         createdAt |-> t, lastSeen |-> t,
                         expiresAt |-> ExpiryFor(perm, t),
                         emotion |-> emo, intensity |-> inten]
            IN  [items |-> pruneMemoryBank(Append(its, item), t),
                 byKey |-> IF perm # "ephemeral" /\ ~emb.isNull
                             THEN setVectorInCache(vectors, key, emb)
                             ELSE vectors]
        ELSE
            LET old == its[at]
                seen == old.timesSeen + 1
                perm == maybePromote(old.permanence, seen)
                feel == MergedEmotion(old, emo, inten)
                item == [old EXCEPT
                           !.timesSeen = seen,
                           !.lastSeen = t,
                           !.confidence = MergedConfidence(old.confidence, conf),
                           !.permanence = perm,
                           !.expiresAt = ExpiryFor(perm, t),
                           !.emotion = feel.emotion,
                           !.intensity = feel.intensity]
            IN  [items |-> pruneMemoryBank([its EXCEPT ![at] = item], t),
                 byKey |-> IF /\ perm # "ephemeral"
                              /\ getVectorFromCache(vectors, key).isNull
                              /\ ~emb.isNull
                             THEN setVectorInCache(vectors, key, emb)
                             ELSE vectors]

----------------------------------------------------------------------------
(* One identity's bank over time: the candidates the callers hand to        *)
(* saveUserMemory, the prune at the start of a request, and the clock.      *)

CandCategories == {<<>>, <<"P","e","o","p","l","e">>, S_habits}
CandTexts == {<<"a">>, <<" ","A">>, <<>>}
CandConfidences == {95, 100}
CandEmotions == {"calm"}
CandIntensities == {2}
EmbResults == {NoEmbedding, Embedding(<<1>>), Embedding(<<2>>)}
TickDays == {15}

BankKeys ==
    {KeyOf(ToLowerCase(IF c = <<>> THEN S_other ELSE c), Trim(x)) :
        c \in CandCategories, x \in {y \in CandTexts : Trim(y) # <<>>}}

KeysIn(its) == {its[i].key : i \in 1..Len(its)}

RECURSIVE SumOver(_, _)
SumOver(f, S) ==
    IF S = {} THEN 0
    ELSE LET k == CHOOSE k \in S : TRUE IN f[k] + SumOver(f, S \ {k})

MergesMade == SumOver(merged, BankKeys)

BankInit ==
    /\ items = <<>>
    /\ byKey = <<>>
    /\ now = 0
    /\ ticks = 0
    /\ merged = [k \in BankKeys |-> 0]
    /\ dropped = {}

\* Time passes between two calls.
BankTick ==
    /\ ticks < MaxTicks
    /\ \E d \in TickDays : now' = now + d
    /\ ticks' = ticks + 1
    /\ UNCHANGED <<items, byKey, merged, dropped>>
    /\ UNCHANGED notBank

\* `const state = loadUser(userId); pruneMemoryBank(state);` of a request
\* that finds the bank as the previous request saved it.
BankPrune ==
    /\ items' = pruneMemoryBank(items, now)
    /\ dropped' = dropped \cup (KeysIn(items) \ KeysIn(items'))
    /\ UNCHANGED <<byKey, now, ticks, merged>>
    /\ UNCHANGED notBank

\* One call of saveUserMemory.
BankMerge ==
    /\ MergesMade < MaxMerges
    /\ \E c \in CandCategories, x \in CandTexts, conf \in CandConfidences,
          emo \in CandEmotions, inten \in CandIntensities, emb \in EmbResults :
        LET r == saveUserMemory(items, byKey, c, x, conf, emo, inten, now, emb)
            key == KeyOf(ToLowerCase(IF c = <<>> THEN S_other ELSE c), Trim(x))
        IN  /\ items' = r.items
            /\ byKey' = r.byKey
            /\ IF Trim(x) = <<>>
                 THEN UNCHANGED <<merged, dropped>>
                 ELSE /\ merged' = [merged EXCEPT ![key] = @ + 1]
                      /\ dropped' = dropped \cup
                                      ((KeysIn(items) \cup {key}) \ KeysIn(items'))
    /\ UNCHANGED <<now, ticks>>
    /\ UNCHANGED notBank

BankNext == BankTick \/ BankPrune \/ BankMerge

----------------------------------------------------------------------------
(* pruneMemoryBank and saveUserMemory on a bank as it was read from disk:   *)
(* loadUser takes memoryBank from the file as it is.                        *)

MakeItem(cat, content, perm, conf, seen, last, exp) ==
    [key |-> KeyOf(cat, content), category |-> cat, content |-> content,
     permanence |-> perm, confidence |-> conf, timesSeen |-> seen,
     createdAt |-> 0, lastSeen |-> last, expiresAt |-> exp,
     emotion |-> "neutral", intensity |-> 1]

\* Items a file may hold: core items with and without an expiresAt, of several
\* ages; one with empty content; sticky and ephemeral items, expired or not.
SampleItems ==
    {MakeItem(S_people, <<"a">>, "core", 95, 5, 19, NULL),
     MakeItem(S_people, <<"b">>, "core", 90, 1, 1, 5),
     MakeItem(S_values, <<"c">>, "core", 50, 1, 2, NULL),
     MakeItem(S_identity, <<"d">>, "core", 50, 2, 3, 10),
     MakeItem(S_identity, <<>>, "core", 99, 9, 19, NULL),
     MakeItem(S_habits, <<"a">>, "sticky", 99, 3, 20, 200),
     MakeItem(S_goals, <<"f">>, "sticky", 99, 2, 1, 10),
     MakeItem(S_other, <<"a">>, "ephemeral", 99, 1, 19, 33)}

PruneTimes == {20, 200}

\* The sequences without repetition of at most n elements of S.
RECURSIVE SeqsWithin(_, _)
SeqsWithin(S, n) ==
    IF n = 0 THEN {<<>>}
    ELSE LET shorter == SeqsWithin(S, n - 1)
         IN  shorter \cup
             UNION {{Append(q, x) : x \in S \ {q[i] : i \in 1..Len(q)}} :
                      q \in {t \in shorter : Len(t) = n - 1}}

LoadedBanks == SeqsWithin(SampleItems, MaxLoaded)

PruneIdle ==
    /\ loaded = <<>>
    /\ kept = <<>>
    /\ phase = "none"

PruneInit ==
    /\ loaded \in LoadedBanks
    /\ kept = loaded
    /\ phase = "loaded"

\* `const state = loadUser(userId); pruneMemoryBank(state);`
PruneLoaded ==
    /\ phase = "loaded"
    /\ kept' = pruneMemoryBank(loaded, now)
    /\ phase' = "pruned"
    /\ UNCHANGED loaded
    /\ UNCHANGED notPrune

\* The categories of the candidates: those of SpecBank, and one that is not
\* in the list of the extraction prompt.
MergeCategories == CandCategories \cup {<<"P","e","t","s">>}

\* The days between a request and the next one of the identity.
PruneDelays == {1, 20}

\* A saveUserMemory call of the same request.
PruneMerge ==
    /\ phase = "pruned"
    /\ \E c \in MergeCategories, x \in CandTexts, conf \in CandConfidences,
          emb \in EmbResults :
        kept' = saveUserMemory(kept, <<>>, c, x, conf, "calm", 2, now, emb).items
    /\ phase' = "merged"
    /\ UNCHANGED loaded
    /\ UNCHANGED notPrune

\* The next request of the identity, some days later: loadUser reads the
\* bank as it was saved, and pruneMemoryBank runs on it.
PruneAgain ==
    /\ phase = "merged"
    /\ \E d \in PruneDelays :
        /\ now' = now + d
        /\ kept' = pruneMemoryBank(kept, now + d)
    /\ phase' = "repruned"
    /\ UNCHANGED loaded
    /\ UNCHANGED <<gateVars, items, byKey, ticks, merged, dropped, recallVars,
                   loadVars, cacheVars, steps, diskVars, call, daily>>

PruneNext == PruneLoaded \/ PruneMerge \/ PruneAgain

----------------------------------------------------------------------------
(* getRelevantMemoryLines *)

\* Array.prototype.sort with a comparator, of which before[i][j] says that it
\* is negative for (s[i], s[j]): a stable sort.
SortBy(s, before) ==
    LET pos(i) == 1 + Cardinality({j \in 1..Len(s) :
                          before[j][i] \/ (~before[i][j] /\ j < i)})
    IN  [p \in 1..Len(s) |-> s[CHOOSE i \in 1..Len(s) : pos(i) = p]]

RECURSIVE dot(_, _)
dot(a, b) ==
    IF a = <<>> \/ b = <<>> THEN 0
    ELSE Head(a) * Head(b) + dot(Tail(a), Tail(b))

\* `Math.sqrt(s) || 1`; the vectors of the model have a whole length.
norm(a) ==
    LET ss == dot(a, a)
    IN  IF ss = 0 THEN 1 ELSE CHOOSE n \in 1..ss : n * n = ss

\* The quotient dot / (norm * norm), kept as a fraction.
cosineSim(a, b) == [num |-> dot(a, b), den |-> norm(a) * norm(b)]

\* `b.sim - a.sim` is negative.
SimBefore(a, b) == b.sim.num * a.sim.den < a.sim.num * b.sim.den

\* `clamp01(b.confidence) - clamp01(a.confidence)` is negative.
ConfidenceBefore(a, b) == clamp01(b.confidence) - clamp01(a.confidence) < 0

\* The comparator of `sample` is negative.
SampleBefore(a, b) ==
    IF TierRank(b) # TierRank(a) THEN TierRank(b) - TierRank(a) < 0
    ELSE b.lastSeen - a.lastSeen < 0

\* A comparator that leaves the array as it is.
ByPosition(s) == [i \in 1..Len(s) |-> [j \in 1..Len(s) |-> FALSE]]

\* The four comparators, over the positions of the array that is sorted.
BySim(s) == [i \in 1..Len(s) |-> [j \in 1..Len(s) |-> SimBefore(s[i], s[j])]]
ByConfidence(s) == [i \in 1..Len(s) |-> [j \in 1..Len(s) |-> ConfidenceBefore(s[i], s[j])]]
BySample(s) == [i \in 1..Len(s) |-> [j \in 1..Len(s) |-> SampleBefore(s[i], s[j])]]
ByRank(s) == [i \in 1..Len(s) |-> [j \in 1..Len(s) |-> PruneBefore(s[i], s[j])]]

\* A lookup that asks the provider whatever the cache holds.
EnsureWithoutCache(vectors, item, emb) ==
    IF emb.isNull THEN [emb |-> NoEmbedding, byKey |-> vectors, asked |-> TRUE]
    ELSE [emb |-> emb, byKey |-> setVectorInCache(vectors, item.key, emb), asked |-> TRUE]

\* ensureItemEmbeddingWithCache(vectors, item), getEmbedding resolving to emb.
ensureItemEmbeddingWithCache(vectors, item, emb) ==
    LET cached == getVectorFromCache(vectors, item.key)
    IN  IF ~cached.isNull THEN [emb |-> cached, byKey |-> vectors, asked |-> FALSE]
        ELSE IF emb.isNull THEN [emb |-> NoEmbedding, byKey |-> vectors, asked |-> TRUE]
        ELSE [emb |-> emb, byKey |-> setVectorInCache(vectors, item.key, emb),
              asked |-> TRUE]

\* `for (const m of sample) { ... ranked.push({ m, sim }); }`
RECURSIVE RankSample(_, _, _, _, _, _)
RankSample(sample, vectors, qEmb, oracle, ranked, asked) ==
    IF sample = <<>> THEN [ranked |-> ranked, byKey |-> vectors, asked |-> asked]
    ELSE LET m == Head(sample)
             got == ensureItemEmbeddingWithCache(vectors, m, oracle[m.key])
             calls == IF got.asked THEN Append(asked, m.key) ELSE asked
         IN  IF got.emb.isNull
               THEN RankSample(Tail(sample), got.byKey, qEmb, oracle, ranked, calls)
               ELSE RankSample(Tail(sample), got.byKey, qEmb, oracle,
                               Append(ranked,
                                      [m |-> m, sim |-> cosineSim(qEmb.vec, got.emb.vec)]),
                               calls)

\* An item read from a file may have no key.
NoKey == <<>>

\* A loop that stops at the first item it has picked before.
RECURSIVE PickUntilSeen(_, _, _)
PickUntilSeen(picked, cands, maxLines) ==
    IF cands = <<>> THEN picked
    ELSE LET m == Head(cands)
         IN  IF m.key = NoKey \/ m.key \in KeysIn(picked) THEN picked
               ELSE IF Len(picked) + 1 >= maxLines THEN Append(picked, m)
               ELSE PickUntilSeen(Append(picked, m), Tail(cands), maxLines)

\* The three loops that fill `picked`; seenKeys holds the keys of picked.
RECURSIVE PickInto(_, _, _)
PickInto(picked, cands, maxLines) ==
    IF cands = <<>> THEN picked
    ELSE LET m == Head(cands)
         IN  IF m.key = NoKey \/ m.key \in KeysIn(picked)
               THEN PickInto(picked, Tail(cands), maxLines)
               ELSE IF Len(picked) + 1 >= maxLines THEN Append(picked, m)
               ELSE PickInto(Append(picked, m), Tail(cands), maxLines)

\* `- ${m.content}`
RenderLine(m) == <<"-", " ">> \o m.content

RECURSIVE DedupeInto(_, _, _, _)
DedupeInto(out, seen, arr, max) ==
    IF arr = <<>> THEN out
    ELSE LET line == Trim(Head(arr))
             k == ToLowerCase(line)
         IN  IF line = <<>> \/ k \in seen THEN DedupeInto(out, seen, Tail(arr), max)
             ELSE IF Len(out) + 1 >= max THEN Append(out, line)
             ELSE DedupeInto(Append(out, line), seen \cup {k}, Tail(arr), max)

dedupeArray(arr, max) == DedupeInto(<<>>, {}, arr, max)

\* Array.prototype.join("\n")
RECURSIVE JoinLines(_)
JoinLines(lines) ==
    IF lines = <<>> THEN <<>>
    ELSE IF Len(lines) = 1 THEN lines[1]
    ELSE lines[1] \o <<"\n">> \o JoinLines(Tail(lines))

\* getRelevantMemoryLines(state, vectors, queryText, maxLines) at time t, the
\* provider answering qEmb for the query and oracle[key] for an item: the
\* text returned, `picked` at the return, and the cache it leaves.
getRelevantMemoryLines(its, vectors, qEmb, oracle, maxLines, t) ==
    IF its = <<>> THEN [text |-> <<>>, picked |-> <<>>, byKey |-> vectors, asked |-> <<>>,
                        items |-> its]
    ELSE
    LET valid == SelectSeq(its, LAMBDA m : Unexpired(m, t))
        sure == SelectSeq(valid, LAMBDA m :
                    m.permanence = "core" /\ clamp01(m.confidence) >= 90)
        coreSure == SliceTo(SortBy(sure, ByConfidence(sure)), 4)
        sample == SliceTo(SortBy(valid, BySample(valid)),
                          Max2(MAX_EMBED_ITEMS, maxLines * 5))
        scored == IF qEmb.isNull
                    THEN [ranked |-> <<>>, byKey |-> vectors, asked |-> <<>>]
                    ELSE RankSample(sample, vectors, qEmb, oracle, <<>>, <<>>)
        ranked == SortBy(scored.ranked, BySim(scored.ranked))
        picked1 == PickInto(<<>>, coreSure, maxLines)
        picked2 == IF Len(picked1) < maxLines /\ ranked # <<>>
                     THEN PickInto(picked1, [i \in 1..Len(ranked) |-> ranked[i].m],
                                   maxLines)
                     ELSE picked1
        fallback == SliceTo(SortBy(valid, ByRank(valid)), maxLines)
        picked == IF Len(picked2) < maxLines
                    THEN PickInto(picked2, fallback, maxLines)
                    ELSE picked2
        lines == [i \in 1..Len(picked) |-> RenderLine(picked[i])]
    IN  [text |-> JoinLines(SliceTo(dedupeArray(lines, 200), maxLines)),
         picked |-> picked,
         byKey |-> scored.byKey,
         asked |-> scored.asked,
         items |-> its]

\* The banks, caches and provider answers getRelevantMemoryLines is called on.
RecallItems ==
    {MakeItem(S_people, <<"a"," ","b">>, "core", 95, 2, 19, NULL),
     MakeItem(S_habits, <<"a"," "," ","b">>, "sticky", 80, 2, 20, 200),
     MakeItem(S_other, <<"A"," ","B">>, "ephemeral", 70, 1, 18, 33),
     MakeItem(S_goals, <<"c">>, "sticky", 99, 2, 1, 10),
     MakeItem(S_values, <<"a","\n","b">>, "core", 50, 1, 2, NULL),
     MakeItem(S_identity, <<"d">>, "core", 99, 1, 3, NULL)}

RecallBanks == SeqsWithin(RecallItems, MaxBank)

RecallKeys == {m.key : m \in RecallItems}

RecallOracles ==
    {[k \in RecallKeys |-> NoEmbedding],
     [k \in RecallKeys |->
        IF k[1] = S_people THEN Embedding(<<1, 0>>)
        ELSE IF k[1] = S_habits THEN Embedding(<<0, 1>>)
        ELSE IF k[1] = S_other THEN Embedding(<<3, 4>>)
        ELSE IF k[1] = S_values THEN Embedding(<<4, 3>>)
        ELSE IF k[1] = S_identity THEN Embedding(<<>>)
        ELSE NoEmbedding],
     [k \in RecallKeys |->
        IF k[1] = S_people THEN Embedding(<<0, 2>>)
        ELSE IF k[1] = S_values THEN NoEmbedding
        ELSE Embedding(<<1, 0>>)]}

RecallCaches ==
    {<<>>, [k \in {KeyOf(S_people, <<"a"," ","b">>)} |-> <<0, 1>>]}

RecallQueries == {NoEmbedding, Embedding(<<1, 0>>)}

RecallTimes == {20, 33}

RecallIdle ==
    /\ rBank = <<>>
    /\ rVectors = <<>>
    /\ rQuery = NoEmbedding
    /\ rOracle = <<>>
    /\ rMax = 1
    /\ rPicked = <<>>
    /\ rOut = <<>>
    /\ rPhase = "none"
    /\ rAsked = <<>>

RecallInit ==
    /\ rBank \in RecallBanks
    /\ rVectors \in RecallCaches
    /\ rQuery \in RecallQueries
    /\ rOracle \in RecallOracles
    /\ rMax \in 1..MaxLines
    /\ rPicked = <<>>
    /\ rOut = <<>>
    /\ rPhase = "asked"
    /\ rAsked = <<>>

\* getRelevantMemoryLines on banks with more core items of high confidence
\* than the four it puts first, and with room for lines of the other tiers.
MaxWideLines == 5

\* A bank as saveUserMemory builds it: every item has its key, no two share
\* one.  Two core items of different categories have the same content.
WideItems ==
    <<MakeItem(S_people, <<"a">>, "core", 95, 2, 19, NULL),
      MakeItem(S_identity, <<"a">>, "core", 95, 1, 18, NULL),
      MakeItem(S_values, <<"b">>, "core", 98, 1, 17, NULL),
      MakeItem(S_people, <<"c">>, "core", 90, 3, 16, NULL),
      MakeItem(S_identity, <<"d">>, "core", 92, 1, 15, NULL),
      MakeItem(S_values, <<"e">>, "core", 89, 4, 20, NULL),
      MakeItem(S_habits, <<"f">>, "sticky", 98, 4, 20, 200)>>

\* The items of WideItems at the positions in S, in their order or reversed.
WideBank(S, reversed) ==
    LET at(i) == CHOOSE k \in S : Cardinality({j \in S : j < k}) = i - 1
        n == Cardinality(S)
    IN  [i \in 1..n |-> WideItems[at(IF reversed THEN n + 1 - i ELSE i)]]

WideBanks ==
    {WideBank(S, reversed) : S \in SUBSET (1..Len(WideItems)), reversed \in BOOLEAN}

WideKeys == {WideItems[i].key : i \in 1..Len(WideItems)}

\* The provider puts the items that are not put first closest to the query,
\* or it fails, or it fails for every content but one.
WideOracles ==
    {[k \in WideKeys |-> NoEmbedding],
     [k \in WideKeys |-> IF k[2] = <<"a">> THEN Embedding(<<1, 0>>) ELSE NoEmbedding],
     [k \in WideKeys |->
        IF k[2] \in {<<"c">>, <<"e">>, <<"f">>} THEN Embedding(<<1, 0>>)
        ELSE Embedding(<<0, 1>>)]}

WideInit ==
    /\ rBank \in WideBanks
    /\ rVectors = <<>>
    /\ rQuery \in RecallQueries
    /\ rOracle \in WideOracles
    /\ rMax \in 1..MaxWideLines
    /\ rPicked = <<>>
    /\ rOut = <<>>
    /\ rPhase = "asked"
    /\ rAsked = <<>>

\* `await getRelevantMemoryLines(state, vectors, message, MAX_RECALL_LINES)`
Recall ==
    /\ rPhase = "asked"
    /\ LET r == getRelevantMemoryLines(rBank, rVectors, rQuery, rOracle, rMax, now)
       IN  /\ rOut' = r.text
           /\ rPicked' = r.picked
           /\ rVectors' = r.byKey
           /\ rAsked' = r.asked
           /\ rBank' = r.items
    /\ rPhase' = "answered"
    /\ UNCHANGED <<rQuery, rOracle, rMax>>
    /\ UNCHANGED notRecall

RecallNext == Recall

----------------------------------------------------------------------------
(* The load step: loadJson, loadUser, ensureMemoryBank, loadVectors.  A     *)
(* JSON value is modelled by its kind; of an object, by the kind of the     *)
(* field the load step reads, and of a memoryBank object by the kind of its *)
(* items.                                                                   *)

\* The kinds of what a file may hold: no file, text that is not JSON, and
\* the JSON values.
FileKinds ==
    {"absent", "garbage", "null", "false", "true", "zero", "number", "string",
     "array", "object"}

\* The kinds of a field of a parsed object; "missing" reads as undefined.
FieldKinds ==
    {"missing", "null", "false", "true", "number", "string", "array", "object"}

JsonValue(kind, field, inner) == [kind |-> kind, field |-> field, inner |-> inner]

\* A bank file: of an object its memoryBank, of a memoryBank object its items.
UserFiles ==
    {JsonValue(k, "missing", "missing") : k \in FileKinds \ {"object"}}
        \cup {JsonValue("object", f, "missing") : f \in FieldKinds \ {"object"}}
        \cup {JsonValue("object", "object", i) : i \in {"missing", "null", "string", "array"}}

\* A vector file: of an object its byKey.
VectorFiles ==
    {JsonValue(k, "missing", "missing") : k \in FileKinds \ {"object"}}
        \cup {JsonValue("object", f, "missing") : f \in FieldKinds}

\* A value of this kind is falsy.
IsFalsy(kind) == kind \in {"missing", "null", "false", "zero"}

\* A value of this kind is a primitive other than null and undefined:
\* its properties read as undefined, and assigning one throws a TypeError in
\* a module (strict mode).
IsPrimitive(kind) == kind \in {"false", "true", "zero", "number", "string"}

\* loadJson(file, fallback): the kind of what it returns; "fallback" when
\* readFileSync or JSON.parse threw.
loadJson(file) == IF file.kind \in {"absent", "garbage"} THEN "fallback" ELSE file.kind

\* loadUser: the kind of state.memoryBank, and of its items.
loadUser(file) ==
    LET parsed == IF loadJson(file) = "fallback" THEN "null" ELSE loadJson(file)
    IN  IF IsFalsy(parsed) THEN [memoryBank |-> "object", items |-> "array"]
        ELSE IF parsed # "object" \/ IsFalsy(file.field)
          THEN [memoryBank |-> "object", items |-> "array"]
        ELSE [memoryBank |-> file.field,
              items |-> IF file.field = "object" THEN file.inner ELSE "missing"]

\* ensureMemoryBank(state): whether it throws, and the kind of the items.
ensureMemoryBank(state) ==
    IF IsFalsy(state.memoryBank) THEN [threw |-> FALSE, items |-> "array"]
    ELSE IF IsPrimitive(state.memoryBank) THEN [threw |-> TRUE, items |-> "missing"]
    ELSE [threw |-> FALSE, items |-> "array"]

\* loadVectors: whether it throws, and the kind of vectors.byKey.
loadVectors(file) ==
    LET parsed == loadJson(file)
    IN  IF parsed = "fallback" THEN [threw |-> FALSE, byKey |-> "object"]
        ELSE IF parsed = "null" THEN [threw |-> TRUE, byKey |-> "missing"]
        ELSE IF IsPrimitive(parsed) THEN [threw |-> TRUE, byKey |-> "missing"]
        ELSE [threw |-> FALSE,
              byKey |-> IF file.field \in {"array", "object"} THEN file.field
                        ELSE "object"]

LoadIdle ==
    /\ fUser = JsonValue("absent", "missing", "missing")
    /\ fVectors = JsonValue("absent", "missing", "missing")
    /\ fOut = "none"

LoadInit ==
    /\ fUser \in UserFiles
    /\ fVectors \in VectorFiles
    /\ fOut = "start"

\* `const state = loadUser(userId); pruneMemoryBank(state);`
LoadBank ==
    /\ fOut = "start"
    /\ fOut' = IF ensureMemoryBank(loadUser(fUser)).threw THEN "threw" ELSE "bank"
    /\ UNCHANGED <<fUser, fVectors>>
    /\ UNCHANGED notLoad

\* `const vectors = loadVectors(userId);`
LoadCache ==
    /\ fOut = "bank"
    /\ fOut' = IF loadVectors(fVectors).threw THEN "threw" ELSE "ready"
    /\ UNCHANGED <<fUser, fVectors>>
    /\ UNCHANGED notLoad

LoadNext == LoadBank \/ LoadCache

----------------------------------------------------------------------------
(* The vector cache: setVectorInCache during a request, saveVectors at its *)
(* end.  A key is the string `${cat}::${normText(content)}`.               *)

\* The entries the vector file keeps; 2000 in the program.
MAX_VECTORS == 3

\* The characters of the keys in ascending order of UTF-16 code unit.
CodeOrder == <<" ", ":">> \o UpperLetters \o LowerLetters

CharCode(c) == CHOOSE i \in 1..Len(CodeOrder) : CodeOrder[i] = c

\* The key as the string the program builds.
KeyString(key) == key[1] \o <<":", ":">> \o key[2]

\* The order of Array.prototype.sort without a comparator: strings by code
\* unit, a proper prefix first.
StringBefore(a, b) ==
    \E i \in 1..(Len(a) + 1) :
        /\ \A j \in 1..(i - 1) : j <= Len(b) /\ a[j] = b[j]
        /\ \/ i = Len(a) + 1 /\ Len(b) >= i
           \/ i <= Len(a) /\ i <= Len(b) /\ CharCode(a[i]) < CharCode(b[i])

\* `keys.sort()` over the keys of an object.
SortedKeys(keys) ==
    [i \in 1..Cardinality(keys) |->
        CHOOSE k \in keys :
            Cardinality({j \in keys : StringBefore(KeyString(j), KeyString(k))}) = i - 1]

\* A saveVectors that deletes nothing.
SaveVectorsUntrimmed(vectors) == vectors

\* saveVectors: vectors.byKey as it is written to the file.
saveVectors(vectors) ==
    LET keys == SortedKeys(DOMAIN vectors)
        n == Len(keys)
    IN  IF n > MAX_VECTORS
          THEN [k \in DOMAIN vectors \ {keys[i] : i \in 1..(n - MAX_VECTORS)} |->
                    vectors[k]]
          ELSE vectors

EmptyCache == [k \in {} |-> <<>>]

CacheKeys ==
    {<<<<"g","o","a","l">>, <<"z">>>>,
     <<S_goals, <<"a">>>>,
     <<S_goals, <<"a"," ","b">>>>,
     <<S_goals, <<"a","b">>>>,
     <<S_other, <<"b">>>>,
     <<S_people, <<"a">>>>}

CacheIdle ==
    /\ vBefore = EmptyCache
    /\ vAfter = EmptyCache
    /\ vFile = EmptyCache
    /\ vPhase = "none"

CacheInit ==
    /\ vBefore \in {[k \in S |-> <<1, 0>>] : S \in SUBSET CacheKeys}
    /\ vAfter = EmptyCache
    /\ vFile = EmptyCache
    /\ vPhase = "open"

\* An embedding fetched during the request enters the cache.
CachePut ==
    /\ vPhase = "open"
    /\ \E k \in CacheKeys :
        vBefore' = setVectorInCache(vBefore, k, Embedding(<<0, 1>>))
    /\ UNCHANGED <<vAfter, vFile, vPhase>>
    /\ UNCHANGED notCache

\* `saveVectors(userId, vectors)`: trim, then atomicWriteJson.
SaveVectors ==
    /\ vPhase = "open"
    /\ vAfter' = saveVectors(vBefore)
    /\ vFile' = vAfter'
    /\ vPhase' = "saved"
    /\ UNCHANGED vBefore
    /\ UNCHANGED notCache

CacheNext == CachePut \/ SaveVectors

----------------------------------------------------------------------------
(* atomicWriteJson on the two files of one identity.  A save is the            *)
(* synchronous end of a handler: saveVectors, then saveUser.  The process may  *)
(* stop between any two system calls, and inside writeFileSync.                *)

\* The saves of the model.
MaxSaves == 2

\* Handlers of the identity that may be at their save.
Writers == 1..2

Files == {"user", "vectors"}

NoFile == [by |-> 0, n |-> 0, whole |-> FALSE]

\* The document of save n of writer w; whole when all of it is in the file.
Document(w, n, whole) == [by |-> w, n |-> n, whole |-> whole]

\* A write that goes to the final path.
PathInPlace(file) == <<file, "final">>

\* `const tmp = `${file}.tmp``: the path writeFileSync writes to.
TmpPath(file) == <<file, "tmp">>

FinalPath(file) == <<file, "final">>

\* The file each stage of a save works on: saveVectors, then saveUser.
FileOfStage(stage) == IF stage <= 3 THEN "vectors" ELSE "user"

DiskIdle ==
    /\ disk = [p \in {TmpPath(f) : f \in Files} \cup {FinalPath(f) : f \in Files} |->
                  IF p[2] = "final" THEN Document(0, 0, TRUE) ELSE NoFile]
    /\ dStage = [w \in Writers |-> 0]
    /\ dRunning = 0
    /\ dSaves = 0
    /\ dUp = TRUE

\* writeFileSync has opened the path and written a part of the document.
DiskOpen(w) ==
    /\ dUp
    /\ dStage[w] \in {0, 3}
    /\ IF dStage[w] = 0 THEN dRunning = 0 /\ dSaves < MaxSaves ELSE dRunning = w
    /\ LET f == FileOfStage(dStage[w] + 1)
           n == IF dStage[w] = 0 THEN dSaves + 1 ELSE dSaves
       IN  disk' = [disk EXCEPT ![TmpPath(f)] = Document(w, n, FALSE)]
    /\ dSaves' = IF dStage[w] = 0 THEN dSaves + 1 ELSE dSaves
    /\ dStage' = [dStage EXCEPT ![w] = @ + 1]
    /\ dRunning' = w
    /\ UNCHANGED dUp
    /\ UNCHANGED notDisk

\* writeFileSync returns: the whole document is at the path.
DiskWritten(w) ==
    /\ dUp
    /\ dRunning = w
    /\ dStage[w] \in {1, 4}
    /\ LET p == TmpPath(FileOfStage(dStage[w]))
       IN  disk' = [disk EXCEPT ![p] = [@ EXCEPT !.whole = TRUE]]
    /\ dStage' = [dStage EXCEPT ![w] = @ + 1]
    /\ UNCHANGED <<dRunning, dSaves, dUp>>
    /\ UNCHANGED notDisk

\* `fs.renameSync(tmp, file)`: the final path holds what the temporary one
\* held, and the temporary one is gone (renaming a path to itself changes
\* nothing).  After saveUser the handler is done.
DiskRename(w) ==
    /\ dUp
    /\ dRunning = w
    /\ dStage[w] \in {2, 5}
    /\ LET f == FileOfStage(dStage[w])
       IN  disk' = [disk EXCEPT ![FinalPath(f)] = disk[TmpPath(f)],
                                ![TmpPath(f)] = IF TmpPath(f) = FinalPath(f)
                                                  THEN disk[TmpPath(f)] ELSE NoFile]
    /\ dStage' = [dStage EXCEPT ![w] = IF @ = 5 THEN 0 ELSE @ + 1]
    /\ dRunning' = IF dStage[w] = 5 THEN 0 ELSE w
    /\ UNCHANGED <<dSaves, dUp>>
    /\ UNCHANGED notDisk

\* The process stops; the files stay as they are.
DiskCrash ==
    /\ dUp
    /\ dUp' = FALSE
    /\ dRunning' = 0
    /\ dStage' = [w \in Writers |-> 0]
    /\ UNCHANGED <<disk, dSaves>>
    /\ UNCHANGED notDisk

\* The process is started again.
DiskRestart ==
    /\ ~dUp
    /\ dUp' = TRUE
    /\ UNCHANGED <<disk, dStage, dRunning, dSaves>>
    /\ UNCHANGED notDisk

DiskNext ==
    \/ \E w \in Writers : DiskOpen(w) \/ DiskWritten(w) \/ DiskRename(w)
    \/ DiskCrash
    \/ DiskRestart

----------------------------------------------------------------------------
(* Functions called by themselves, on arguments drawn from small sets. *)

CallIdle == call = [fn |-> "none"]

\* The merge of a candidate into a bank that holds an item of its key: the
\* item has a tag, the candidate brings an emotion and an intensity as the
\* extraction returned them.
TaggedItems ==
    {[MakeItem(S_people, <<"a">>, "core", 95, 2, 19, NULL)
         EXCEPT !.emotion = e, !.intensity = n] :
       e \in {"neutral", "calm", "sad"}, n \in 1..3}

TagEmotions == {"neutral", "calm", "angry", "bored"}

TagIntensities == 0..4

TagInit ==
    call \in [fn : {"saveUserMemory"}, item : TaggedItems, emotion : TagEmotions,
              intensity : TagIntensities, done : {FALSE}, items : {<<>>}]

\* `await saveUserMemory(state, vectors, cat, content, conf, emo, inten)`
TagMerge ==
    /\ call.fn = "saveUserMemory"
    /\ ~call.done
    /\ call' = [call EXCEPT
                  !.done = TRUE,
                  !.items = saveUserMemory(<<call.item>>, <<>>, call.item.category,
                                           call.item.content, 95, call.emotion,
                                           call.intensity, now, NoEmbedding).items]
    /\ UNCHANGED notCall

TagNext == TagMerge

\* ensureItemEmbeddingWithCache and setVectorInCache on a cache that has no
\* entry, an empty entry or a vector for the item's key, the provider
\* answering nothing, an empty array or a vector.
EnsureKeys == {KeyOf(S_people, <<"a">>), KeyOf(S_habits, <<"a">>)}

EnsureCaches == UNION {[D -> {<<>>, <<1>>, <<3>>}] : D \in SUBSET EnsureKeys}

EnsureAnswers == {NoEmbedding, Embedding(<<>>), Embedding(<<1>>), Embedding(<<2>>)}

EnsureInit ==
    call \in [fn : {"ensureItemEmbeddingWithCache", "setVectorInCache"},
              vectors : EnsureCaches, key : EnsureKeys, answer : EnsureAnswers,
              done : {FALSE}, emb : {NoEmbedding}, byKey : {<<>>}, asked : {FALSE}]

\* `const emb = await ensureItemEmbeddingWithCache(vectors, m);`
EnsureCall ==
    /\ call.fn = "ensureItemEmbeddingWithCache"
    /\ ~call.done
    /\ LET got == ensureItemEmbeddingWithCache(call.vectors, [key |-> call.key],
                                               call.answer)
       IN  call' = [call EXCEPT !.done = TRUE, !.emb = got.emb,
                                !.byKey = got.byKey, !.asked = got.asked]
    /\ UNCHANGED notCall

\* `setVectorInCache(vectors, key, emb)`
PutCall ==
    /\ call.fn = "setVectorInCache"
    /\ ~call.done
    /\ call' = [call EXCEPT !.done = TRUE,
                            !.byKey = setVectorInCache(call.vectors, call.key,
                                                       call.answer)]
    /\ UNCHANGED notCall

EnsureNext == EnsureCall \/ PutCall

----------------------------------------------------------------------------
(* The daily jobs of one identity: runDailyReflectionIfNeeded,              *)
(* updateSelfModelIfNeeded and updateSelfNarrativeIfNeeded, which the       *)
(* handler calls in this order with the day key it read at its start.  A    *)
(* day key is a day number, "" is 0.  The requests of the identity run one  *)
(* after the other and each finds the state the one before it saved.        *)

MaxDays == 2
MaxDailyRequests == 3

Days == 1..MaxDays
Jobs == <<"reflection", "selfModel", "selfNarrative">>
JobNames == {Jobs[i] : i \in 1..Len(Jobs)}

\* What the chat provider answers to a job: JSON with update (store) true and
\* usable fields, with update true and an empty line, with update true and
\* a line that says "you", with update (store) false, text that is not JSON,
\* or an error.
Answers == {"true", "trueNoLine", "trueYou", "false", "unparseable", "error"}

\* The handler returns before the gate when `openai` is null (1255).
HasOpenai == TRUE

\* A job's result: the dayKey it leaves and whether it called the provider.
JobResult(dayKey, called) == [dayKey |-> dayKey, called |-> called]

\* runDailyReflectionIfNeeded(state, todayKey): enough says that the last 16
\* entries of the history hold REFLECTION_MIN_TURNS turns and some text.
runDailyReflectionIfNeeded(dayKey, todayKey, enough, answer) ==
    IF dayKey = todayKey THEN JobResult(dayKey, FALSE)
    ELSE IF ~HasOpenai THEN JobResult(todayKey, FALSE)
    ELSE IF ~enough THEN JobResult(todayKey, FALSE)
    ELSE JobResult(todayKey, TRUE)

\* updateSelfModelIfNeeded(state, todayKey)
updateSelfModelIfNeeded(dayKey, todayKey, answer) ==
    IF dayKey = todayKey THEN JobResult(dayKey, FALSE)
    ELSE IF ~HasOpenai THEN JobResult(todayKey, FALSE)
    ELSE JobResult(todayKey, TRUE)

\* updateSelfNarrativeIfNeeded(state, todayKey): when parsed.update is not
\* true the statement is `state.selfNarrative.dayKey === todayKey;`, a
\* comparison, and the day key stays as it was.
updateSelfNarrativeIfNeeded(dayKey, todayKey, answer) ==
    IF dayKey = todayKey THEN JobResult(dayKey, FALSE)
    ELSE IF ~HasOpenai THEN JobResult(todayKey, FALSE)
    ELSE IF answer = "error" THEN JobResult(todayKey, TRUE)
    ELSE IF answer \in {"false", "unparseable"} THEN JobResult(dayKey, TRUE)
    ELSE JobResult(todayKey, TRUE)

DailyIdle ==
    daily = [today |-> 1, key |-> 0, pos |-> 0, requests |-> 0,
             dayKey |-> [j \in JobNames |-> 0],
             calls |-> [j \in JobNames |-> [d \in Days |-> 0]],
             last |-> [j \in JobNames |-> "none"]]

\* What a job's run leaves in the record.
AfterJob(j, got, answer) ==
    [daily EXCEPT
       !.pos = IF daily.pos = Len(Jobs) THEN 0 ELSE daily.pos + 1,
       !.dayKey[j] = got.dayKey,
       !.calls[j][daily.key] = IF got.called THEN @ + 1 ELSE @,
       !.last[j] = IF got.called THEN answer ELSE "skipped"]

\* `const todayKey = dayKeyLA();` of a request of the identity.
DailyArrive ==
    /\ daily.pos = 0
    /\ daily.requests < MaxDailyRequests
    /\ daily' = [daily EXCEPT !.pos = 1, !.key = daily.today, !.requests = @ + 1]
    /\ UNCHANGED notDaily

\* `await runDailyReflectionIfNeeded(state, todayKey);`
DailyReflection ==
    /\ daily.pos = 1
    /\ \E answer \in Answers, enough \in BOOLEAN :
          daily' = AfterJob("reflection",
                            runDailyReflectionIfNeeded(daily.dayKey["reflection"],
                                                       daily.key, enough, answer),
                            answer)
    /\ UNCHANGED notDaily

\* `await updateSelfModelIfNeeded(state, todayKey);`
DailySelfModel ==
    /\ daily.pos = 2
    /\ \E answer \in Answers :
          daily' = AfterJob("selfModel",
                            updateSelfModelIfNeeded(daily.dayKey["selfModel"],
                                                    daily.key, answer),
                            answer)
    /\ UNCHANGED notDaily

\* `await updateSelfNarrativeIfNeeded(state, todayKey);` and the saveUser
\* that follows it.
DailySelfNarrative ==
    /\ daily.pos = 3
    /\ \E answer \in Answers :
          daily' = AfterJob("selfNarrative",
                            updateSelfNarrativeIfNeeded(daily.dayKey["selfNarrative"],
                                                        daily.key, answer),
                            answer)
    /\ UNCHANGED notDaily

\* Midnight in Los Angeles: dayKeyLA() returns the next key from now on.
DailyMidnight ==
    /\ daily.today < MaxDays
    /\ daily' = [daily EXCEPT !.today = @ + 1]
    /\ UNCHANGED notDaily

DailyNext ==
    DailyArrive \/ DailyReflection \/ DailySelfModel \/ DailySelfNarrative
        \/ DailyMidnight

Init ==
    GateInit /\ BankInit /\ PruneIdle /\ RecallIdle /\ LoadIdle /\ CacheIdle
        /\ StepsIdle /\ DiskIdle /\ CallIdle /\ DailyIdle

\* The gate by itself: the calls of the handlers are not recorded.
Next ==
    \E r \in Requests :
        \/ ChatEarlyReturn(r) /\ UNCHANGED steps
        \/ ChatArrive(r) /\ UNCHANGED steps
        \/ GlobalResume(r) /\ UNCHANGED steps
        \/ ChatGetUserSem(r) /\ UNCHANGED steps
        \/ UserResume(r) /\ UNCHANGED steps
        \/ ChatLoad(r) /\ UNCHANGED steps
        \/ ChatRecalled(r) /\ UNCHANGED steps
        \/ ChatReplied(r) /\ UNCHANGED steps
        \/ ChatSave(r) /\ UNCHANGED steps

Spec == Init /\ [][Next]_vars

\* The steps a request takes by itself once it has arrived: resumptions of
\* resolved awaits, and the returns of the provider calls it awaits.
Advance(r) ==
    /\ \/ GlobalResume(r)
       \/ ChatGetUserSem(r)
       \/ UserResume(r)
       \/ ChatLoad(r)
       \/ ChatRecalled(r)
       \/ ChatReplied(r)
       \/ ChatSave(r)
    /\ UNCHANGED steps

\* The event loop runs every ready continuation, and every provider call
\* returns (the premise of the liveness claim).
FairSpec == Spec /\ \A r \in Requests : WF_vars(Advance(r))

SpecBank == Init /\ [][BankNext]_vars

\* The clock of a call made on a bank read from disk.
BankAt(times) ==
    /\ items = <<>>
    /\ byKey = <<>>
    /\ now \in times
    /\ ticks = 0
    /\ merged = [k \in BankKeys |-> 0]
    /\ dropped = {}

InitPrune ==
    GateInit /\ BankAt(PruneTimes) /\ PruneInit /\ RecallIdle /\ LoadIdle /\ CacheIdle
        /\ StepsIdle /\ DiskIdle /\ CallIdle /\ DailyIdle

SpecPrune == InitPrune /\ [][PruneNext]_vars

InitRecall ==
    GateInit /\ BankAt(RecallTimes) /\ PruneIdle /\ RecallInit /\ LoadIdle /\ CacheIdle
        /\ StepsIdle /\ DiskIdle /\ CallIdle /\ DailyIdle

SpecRecall == InitRecall /\ [][RecallNext]_vars

InitLoad ==
    GateInit /\ BankInit /\ PruneIdle /\ RecallIdle /\ LoadInit /\ CacheIdle
        /\ StepsIdle /\ DiskIdle /\ CallIdle /\ DailyIdle

SpecLoad == InitLoad /\ [][LoadNext]_vars

InitCache ==
    GateInit /\ BankInit /\ PruneIdle /\ RecallIdle /\ LoadIdle /\ CacheInit
        /\ StepsIdle /\ DiskIdle /\ CallIdle /\ DailyIdle

SpecCache == InitCache /\ [][CacheNext]_vars

SpecSteps == Init /\ [][StepsNext]_vars

InitWide ==
    GateInit /\ BankAt(RecallTimes) /\ PruneIdle /\ WideInit /\ LoadIdle /\ CacheIdle
        /\ StepsIdle /\ DiskIdle /\ CallIdle /\ DailyIdle

SpecRecallWide == InitWide /\ [][RecallNext]_vars

SpecDisk == Init /\ [][DiskNext]_vars

InitTag ==
    GateInit /\ BankAt(RecallTimes) /\ PruneIdle /\ RecallIdle /\ LoadIdle /\ CacheIdle
        /\ StepsIdle /\ DiskIdle /\ TagInit /\ DailyIdle

SpecTag == InitTag /\ [][TagNext]_vars

InitEnsure ==
    GateInit /\ BankAt(RecallTimes) /\ PruneIdle /\ RecallIdle /\ LoadIdle /\ CacheIdle
        /\ StepsIdle /\ DiskIdle /\ EnsureInit /\ DailyIdle

SpecEnsure == InitEnsure /\ [][EnsureNext]_vars

SpecDaily == Init /\ [][DailyNext]_vars

----------------------------------------------------------------------------
(* The concurrency gate: claims *)

FullPermits == <<"gAcq", "uAcq", "uRel", "gRel">>

IsPrefix(p, q) == Len(p) <= Len(q) /\ SubSeq(q, 1, Len(p)) = p

\* Requests between the return of userSem.acquire() and userSem.release().
UserHolders(u) ==
    {r \in Requests : userOf[r] = u /\ pc[r] \in {"uRet", "recall", "reply", "merge"}}

\* Requests between their loadUser and their saveUser.
InCycle(u) ==
    {r \in Requests : userOf[r] = u /\ pc[r] \in {"recall", "reply", "merge"}}

\* Requests between the return of globalSem.acquire() and globalSem.release().
GlobalHolders ==
    {r \in Requests :
        pc[r] \in {"gRet", "uWait", "uWoken", "uRet", "recall", "reply", "merge"}}

\* C1: per identity at most one request is between the return of its
\* userSem.acquire() and its userSem.release(), hence at most one is between
\* its loadUser and its saveUser.
C1_OneHolderPerIdentity ==
    \A u \in Users :
        /\ Cardinality(UserHolders(u)) <= USER_CONCURRENCY
        /\ Cardinality(InCycle(u)) <= 1

\* C2: the requests that have returned from globalSem.acquire() and have not
\* called globalSem.release() never number more than max.
C2_GlobalBound == Cardinality(GlobalHolders) <= GLOBAL_CONCURRENCY

\* C9: a request acquires the global permit first and the identity permit
\* second, and on every exit path of the handler it has released each permit
\* it acquired exactly once, the identity permit before the global one.
C9_MatchedReleases ==
    \A r \in Requests :
        /\ IsPrefix(permits[r], FullPermits)
        /\ pc[r] \in {"uRet", "recall", "reply", "merge"} => permits[r] = <<"gAcq", "uAcq">>
        /\ pc[r] = "done" /\ outcome[r] # "early" => permits[r] = FullPermits

\* Four requests have left the handler with both permits released: one
\* normally, one after a provider failure, one by an exception while loading,
\* one by an exception of a save.
C9_Witness ==
    \E a, b, c, d \in Requests :
        /\ pc[a] = "done" /\ outcome[a] = "ok" /\ permits[a] = FullPermits
        /\ pc[b] = "done" /\ outcome[b] = "voiceFail" /\ permits[b] = FullPermits
        /\ pc[c] = "done" /\ outcome[c] = "loadThrew" /\ permits[c] = FullPermits
        /\ pc[d] = "done" /\ outcome[d] = "saveThrew" /\ permits[d] = FullPermits

\* C10: under weak fairness of the requests' steps, every request that has
\* called globalSem.acquire() is admitted by both semaphores and leaves the
\* handler through its releases; no queued waiter stays queued for ever.
C10_EventuallyReleased ==
    \A r \in Requests :
        (pc[r] \notin {"idle", "done"}) ~> (pc[r] = "done" /\ permits[r] = FullPermits)

\* A waiter of a user semaphore has been woken by a release while another
\* request is still queued on the global semaphore.
C10_Witness ==
    \E r, q \in Requests : pc[r] = "uWoken" /\ pc[q] \in {"gWait", "gWoken"}

\* Requests that have called globalSem.acquire() and have not returned from it.
GlobalWaiters == {r \in Requests : pc[r] \in {"gWait", "gWoken"}}

\* C11: admission to the global semaphore is first in, first out: a request
\* that called acquire() later (requests are numbered in that order) has not
\* returned from it while an earlier caller is still waiting.
C11_FifoAdmission ==
    \A q \in GlobalWaiters : \A r \in Requests : q < r => permits[r] = <<>>

----------------------------------------------------------------------------
(* The memory bank: claims *)

ItemsWithKey(its, k) == {i \in 1..Len(its) : its[i].key = k}

\* The bank holds exactly one item of key k, seen n times.
OneItemSeen(its, k, n) ==
    /\ Cardinality(ItemsWithKey(its, k)) = 1
    /\ \A i \in ItemsWithKey(its, k) : its[i].timesSeen = n

\* C3, as stated: after each saveUserMemory call the bank holds, for every key
\* merged so far, exactly one item of that key, whose timesSeen is the number
\* of merges of the key.
C3_ExactlyOneAfterEachMerge ==
    [][merged' # merged =>
         \A k \in BankKeys : merged'[k] > 0 => OneItemSeen(items', k, merged'[k])]_vars

\* C3, amended: the bank never holds two items of one key, and for every key
\* merged so far whose item pruneMemoryBank has not removed (by expiry or by
\* the capacity cut) it holds exactly one item, whose timesSeen is the number
\* of merges of the key.
C3_OnePerKeyWhileKept ==
    \A k \in BankKeys :
        /\ Cardinality(ItemsWithKey(items, k)) <= 1
        /\ merged[k] > 0 /\ k \notin dropped => OneItemSeen(items, k, merged[k])

\* A key merged three times, between merges of another key, is still held.
C3_Witness ==
    \E k \in BankKeys \ dropped :
        /\ merged[k] >= 3
        /\ OneItemSeen(items, k, merged[k])
        /\ \E k2 \in BankKeys \ {k} : merged[k2] >= 1

\* C4: a merge never lowers the confidence of the item it merges into.
C4_ConfidenceNeverDecreases ==
    [][merged' # merged =>
         \A i \in 1..Len(items), j \in 1..Len(items') :
             items[i].key = items'[j].key =>
                 items'[j].confidence >= items[i].confidence]_vars

\* C6: no step moves an item's permanence from core to sticky or ephemeral, or
\* from sticky to ephemeral; a core item stays core when it is merged again.
C6_PermanenceNeverDemoted ==
    [][\A i \in 1..Len(items), j \in 1..Len(items') :
           items[i].key = items'[j].key => TierRank(items'[j]) >= TierRank(items[i])]_vars

\* A core item has been merged again, and an item created ephemeral has been
\* promoted by a second merge.
C6_Witness ==
    /\ \E i \in 1..Len(items) :
          /\ initialPermanence(items[i].category, items[i].content) = "core"
          /\ items[i].timesSeen >= 2
          /\ items[i].permanence = "core"
    /\ \E j \in 1..Len(items) :
          /\ initialPermanence(items[j].category, items[j].content) = "ephemeral"
          /\ items[j].timesSeen >= 2
          /\ items[j].permanence = "sticky"

\* C12: every item of the bank that is core has expiresAt null; so has the
\* item a fourth merge has just promoted to core.
C12_CoreNeverExpires ==
    \A i \in 1..Len(items) : items[i].permanence = "core" => items[i].expiresAt = NULL

\* An item created sticky or ephemeral, with an expiresAt, has been promoted
\* to core by its fourth merge and has expiresAt null.
C12_Witness ==
    \E i \in 1..Len(items) :
        /\ initialPermanence(items[i].category, items[i].content) # "core"
        /\ items[i].timesSeen = 4
        /\ items[i].permanence = "core"
        /\ items[i].expiresAt = NULL

\* The tier of an item of initial tier init after its n-th merge.
TierAfter(init, n) ==
    IF n >= 4 THEN "core"
    ELSE IF n >= 2 THEN (IF init = "core" THEN "core" ELSE "sticky")
    ELSE init

\* C15: an item that has stayed in the bank has, after its n-th merge, the
\* permanence core if n >= 4, core or sticky (core if it was created core) if
\* n is 2 or 3, and its initial tier if n = 1; after the fourth merge its
\* expiresAt is null.
C15_PromotionSchedule ==
    \A k \in BankKeys \ dropped :
        merged[k] > 0 =>
            /\ ItemsWithKey(items, k) # {}
            /\ \A i \in ItemsWithKey(items, k) :
                  /\ items[i].permanence =
                        TierAfter(initialPermanence(items[i].category, items[i].content),
                                  merged[k])
                  /\ merged[k] >= 4 => items[i].expiresAt = NULL

\* A habits item, sticky at its creation, is core after its fourth merge.
C15_Witness ==
    \E k \in BankKeys \ dropped :
        /\ merged[k] = 4
        /\ \E i \in ItemsWithKey(items, k) :
              /\ items[i].category = S_habits
              /\ items[i].permanence = "core"

----------------------------------------------------------------------------
(* pruneMemoryBank: claims *)

\* The items of a bank that are core and have content.
CoreItems(its) ==
    {its[i] : i \in {j \in 1..Len(its) :
                       its[j].permanence = "core" /\ its[j].content # <<>>}}

RangeOf(its) == {its[i] : i \in 1..Len(its)}

\* C5, as stated: pruneMemoryBank removes no core item with content, whatever
\* the bank holds.
C5_CoreNeverRemoved ==
    phase = "pruned" => CoreItems(loaded) \subseteq RangeOf(kept)

\* C5, amended: pruneMemoryBank removes no core item with content because of
\* its expiresAt or its age; it removes core items in the capacity cut alone,
\* when the bank holds more than MAX_MEM_ITEMS of them, and then keeps
\* MAX_MEM_ITEMS of them.
C5_CoreRemovedOnlyByCap ==
    phase = "pruned" =>
        /\ CoreItems(kept) \subseteq CoreItems(loaded)
        /\ Cardinality(CoreItems(kept)) =
               Min2(Cardinality(CoreItems(loaded)), MAX_MEM_ITEMS)
        /\ Cardinality(CoreItems(loaded)) <= MAX_MEM_ITEMS =>
               CoreItems(loaded) \subseteq RangeOf(kept)

\* A pruned bank that held a core item with an expiresAt in the past, which
\* is kept, next to an expired sticky item, which is not.
C5_Witness ==
    /\ phase = "pruned"
    /\ Cardinality(CoreItems(loaded)) <= MAX_MEM_ITEMS
    /\ \E m \in CoreItems(loaded) :
          m.expiresAt # NULL /\ m.expiresAt <= now /\ m \in RangeOf(kept)
    /\ \E m \in RangeOf(loaded) \ RangeOf(kept) : m.permanence = "sticky"

\* C7: after pruneMemoryBank, and after a saveUserMemory call that follows it,
\* the bank holds at most MAX_MEM_ITEMS items.
C7_BankWithinCap ==
    phase \in {"pruned", "merged"} => Len(kept) <= MAX_MEM_ITEMS

\* A bank of more than MAX_MEM_ITEMS + 1 items was pruned, then merged into,
\* and holds MAX_MEM_ITEMS items.
C7_Witness ==
    /\ phase = "merged"
    /\ Len(loaded) > MAX_MEM_ITEMS + 1
    /\ Len(kept) = MAX_MEM_ITEMS

\* The items of a bank that pass the filter of pruneMemoryBank at time t.
ValidItems(its, t) == {m \in RangeOf(its) : Unexpired(m, t)}

\* C13: when more than MAX_MEM_ITEMS items pass the filter, pruneMemoryBank
\* keeps exactly MAX_MEM_ITEMS of them, and no removed item ranks before a
\* kept one under the comparator (tier, then confidence, then timesSeen).
C13_LowestRankedRemoved ==
    phase = "pruned" /\ Cardinality(ValidItems(loaded, now)) > MAX_MEM_ITEMS =>
        /\ Len(kept) = MAX_MEM_ITEMS
        /\ RangeOf(kept) \subseteq ValidItems(loaded, now)
        /\ \A m \in ValidItems(loaded, now) \ RangeOf(kept) :
              \A k \in RangeOf(kept) : ~PruneBefore(m, k)

\* Two items more than the cap passed the filter, of which a core item was
\* kept and a sticky or ephemeral one removed.
C13_Witness ==
    /\ phase = "pruned"
    /\ Cardinality(ValidItems(loaded, now)) >= MAX_MEM_ITEMS + 2
    /\ \E k \in RangeOf(kept) : k.permanence = "core"
    /\ \E m \in ValidItems(loaded, now) \ RangeOf(kept) : m.permanence # "core"

\* The bank a prune step starts from: the file's at the first prune of a
\* request, the saved one at the prune of the next request.
PrunedFrom == IF phase = "loaded" THEN loaded ELSE kept

\* C14: a prune at time now removes every non-core item whose expiresAt is
\* not null and <= now, and, when no more than MAX_MEM_ITEMS items pass the
\* filter, keeps every non-core item with content whose expiresAt is null or
\* later than now.
C14_ExpiredRemovedOthersKept ==
    [][phase' \in {"pruned", "repruned"} =>
         \A m \in RangeOf(PrunedFrom) :
             m.permanence # "core" =>
                 /\ m.expiresAt # NULL /\ m.expiresAt <= now' => m \notin RangeOf(kept')
                 /\ (/\ m.content # <<>>
                     /\ m.expiresAt = NULL \/ now' < m.expiresAt
                     /\ Cardinality(ValidItems(PrunedFrom, now')) <= MAX_MEM_ITEMS)
                        => m \in RangeOf(kept')]_vars

\* After the prune of a later request: an ephemeral item merged one day
\* before it is kept, and an expired item the file held is gone.
C14_Witness ==
    /\ phase = "repruned"
    /\ \E m \in RangeOf(kept) : m.permanence = "ephemeral" /\ m.lastSeen = now - 1
    /\ \E m \in RangeOf(loaded) \ RangeOf(kept) :
          m.permanence # "core" /\ m.expiresAt # NULL /\ m.expiresAt <= now

\* The categories of the extraction prompt.
AllowedCategories ==
    {S_people, S_goals, S_habits, S_preferences, S_values, S_identity, S_other}

\* C18: the category saveUserMemory stores is one of the seven of the list:
\* a candidate of another category is stored under `other`.
C18_CategoryDefaultsToOther ==
    \A m \in RangeOf(kept) : m.category \in AllowedCategories

----------------------------------------------------------------------------
(* getRelevantMemoryLines: claims *)

\* String.prototype.split("\n")
RECURSIVE SplitLines(_)
SplitLines(text) ==
    IF \A i \in 1..Len(text) : text[i] # "\n" THEN <<text>>
    ELSE LET i == CHOOSE i \in 1..Len(text) :
                    text[i] = "\n" /\ \A j \in 1..(i - 1) : text[j] # "\n"
         IN  <<SubSeq(text, 1, i - 1)>> \o SplitLines(SubSeq(text, i + 1, Len(text)))

\* The lines of the text returned.
LinesOf(text) == IF text = <<>> THEN <<>> ELSE SplitLines(text)

AtMostMaxLines == Len(LinesOf(rOut)) <= rMax

\* The lines are renderings of picked items, no two of which share a key.
FromDistinctKeys ==
    /\ \A i, j \in 1..Len(rPicked) : i # j => rPicked[i].key # rPicked[j].key
    /\ \A l \in 1..Len(LinesOf(rOut)) :
          \E i \in 1..Len(rPicked) : LinesOf(rOut)[l] = Trim(RenderLine(rPicked[i]))

NoEqualLines ==
    \A i, j \in 1..Len(LinesOf(rOut)) :
        i # j => normText(LinesOf(rOut)[i]) # normText(LinesOf(rOut)[j])

\* C8: getRelevantMemoryLines returns at most maxLines lines, each rendered
\* from an item of a distinct key, no two of them equal after lower-casing,
\* trimming and collapsing runs of white space.
C8_RecallLines ==
    rPhase = "answered" => AtMostMaxLines /\ FromDistinctKeys /\ NoEqualLines

----------------------------------------------------------------------------
(* Claims about the load step *)

\* C16: whatever the bank file and the vector file of an identity hold, the
\* load step of a request (loadUser, ensureMemoryBank, loadVectors) does not
\* throw.
C16_LoadNeverThrows == fOut # "threw"

----------------------------------------------------------------------------
(* Claims about the vector cache *)

\* C17: after saveVectors the cache in memory and the one in the file hold
\* at most MAX_VECTORS entries; when there were n > MAX_VECTORS, exactly the
\* n - MAX_VECTORS lowest keys in string order are gone and every other entry
\* is kept with its vector.
C17_LowestKeysTrimmed ==
    vPhase = "saved" =>
        LET n == Cardinality(DOMAIN vBefore)
            removed == DOMAIN vBefore \ DOMAIN vAfter
        IN  /\ Cardinality(DOMAIN vAfter) <= MAX_VECTORS
            /\ vFile = vAfter
            /\ DOMAIN vAfter \subseteq DOMAIN vBefore
            /\ \A k \in DOMAIN vAfter : vAfter[k] = vBefore[k]
            /\ n <= MAX_VECTORS => removed = {}
            /\ n > MAX_VECTORS =>
                /\ Cardinality(removed) = n - MAX_VECTORS
                /\ \A r \in removed : \A k \in DOMAIN vAfter :
                       StringBefore(KeyString(r), KeyString(k))

\* All six keys were cached, two of them with a vector of this request, and
\* the file keeps the three highest.
C17_Witness ==
    /\ vPhase = "saved"
    /\ DOMAIN vBefore = CacheKeys
    /\ \E k \in DOMAIN vAfter : vAfter[k] = <<0, 1>>
    /\ \E k \in DOMAIN vAfter : vAfter[k] = <<1, 0>>
    /\ DOMAIN vFile =
           {<<S_goals, <<"a","b">>>>, <<S_other, <<"b">>>>, <<S_people, <<"a">>>>}

----------------------------------------------------------------------------
(* Claims about the order of the calls of a handler *)

ClaimedHead ==
    <<"gAcq", "uAcq", "loadUser", "pruneMemoryBank", "getRelevantMemoryLines", "reply">>

ClaimedTail == <<"saveVectors", "saveUser", "uRel", "gRel">>

IsClaimedCall(c) ==
    \/ c = "saveUserMemory"
    \/ \E i \in 1..Len(ClaimedHead) : ClaimedHead[i] = c
    \/ \E i \in 1..Len(ClaimedTail) : ClaimedTail[i] = c

IsBankMutation(c) == c \in {"saveUserMemory", "pruneMemoryBank"}

\* C19: a request that passes the early returns calls, in this order, global
\* acquire, identity acquire, loadUser, pruneMemoryBank,
\* getRelevantMemoryLines, the reply, saveUserMemory for each candidate,
\* saveVectors, saveUser, identity release, global release; a prune precedes
\* the recall, and the last bank mutation before a saveUser that follows a
\* merge is a prune.
C19_StepOrder ==
    \A r \in Requests :
        LET t == SelectSeq(steps[r], IsClaimedCall)
            h == Len(ClaimedHead)
            k == Len(t) - Len(ClaimedTail)
        IN  /\ pc[r] # "done" => IsPrefix(t, ClaimedHead)
            /\ pc[r] = "done" /\ outcome[r] \in {"ok", "voiceFail"} =>
                /\ k >= h
                /\ SubSeq(t, 1, h) = ClaimedHead
                /\ SubSeq(t, k + 1, Len(t)) = ClaimedTail
                /\ \A i \in (h + 1)..k : IsBankMutation(t[i])
            /\ \A j \in 1..Len(t) :
                t[j] = "getRelevantMemoryLines" =>
                    \E i \in 1..(j - 1) : t[i] = "pruneMemoryBank"
            /\ \A j \in 1..Len(t) :
                t[j] = "saveUser" /\ (\E i \in 1..(j - 1) : t[i] = "saveUserMemory") =>
                    \E i \in 1..(j - 1) :
                        /\ t[i] = "pruneMemoryBank"
                        /\ \A m \in (i + 1)..(j - 1) : ~IsBankMutation(t[m])

\* A request has replied after two merges, and another has left the handler
\* after its provider call failed.
C19_Witness ==
    \E r \in Requests : \E q \in Requests :
        /\ outcome[r] = "ok"
        /\ Cardinality({i \in 1..Len(steps[r]) : steps[r][i] = "saveUserMemory"}) = 2
        /\ pc[q] = "done"
        /\ outcome[q] = "voiceFail"

----------------------------------------------------------------------------
(* Claims about the tiers of the recall *)

\* The positions of the bank that hold a valid core item of confidence 0.9
\* or more.
CoreSure == {i \in 1..Len(rBank) :
                /\ Unexpired(rBank[i], now)
                /\ rBank[i].permanence = "core"
                /\ clamp01(rBank[i].confidence) >= 90}

\* How many items are put first.
PutFirst == Min2(Min2(Cardinality(CoreSure), 4), rMax)

\* The lines of the items put first.
FirstLines == {Trim(RenderLine(rPicked[i])) : i \in 1..PutFirst}

\* The picked items begin with the core items of confidence 0.9 or more, at
\* most 4 of them, the highest confidences first.
CoreSurePickedFirst ==
    /\ Len(rPicked) >= PutFirst
    /\ \A i \in 1..PutFirst : \E k \in CoreSure : rPicked[i] = rBank[k]
    /\ \A i \in 1..(PutFirst - 1) :
          clamp01(rPicked[i].confidence) >= clamp01(rPicked[i + 1].confidence)
    /\ \A i \in 1..PutFirst : \A k \in CoreSure :
          rBank[k] \notin {rPicked[j] : j \in 1..PutFirst} =>
              clamp01(rBank[k].confidence) <= clamp01(rPicked[i].confidence)

\* In the text, no line of another tier stands before a line of an item put
\* first.
CoreSureLinesFirst ==
    LET L == LinesOf(rOut)
    IN  /\ \A s \in FirstLines : \E i \in 1..Len(L) : L[i] = s
        /\ \A i, j \in 1..Len(L) :
              i < j /\ L[j] \in FirstLines => L[i] \in FirstLines

\* C20, as stated: the lines of the valid core items of confidence 0.9 or
\* more (at most 4, by descending confidence) precede every line of the
\* similarity tier and of the fallback tier, and when there are at least
\* min(4, maxLines) such items the first min(4, maxLines) lines are all theirs.
C20_CoreSureFirst ==
    rPhase = "answered" =>
        /\ CoreSurePickedFirst
        /\ CoreSureLinesFirst
        /\ Cardinality(CoreSure) >= Min2(4, rMax) =>
              \A i \in 1..Min2(4, rMax) :
                  i <= Len(LinesOf(rOut)) => LinesOf(rOut)[i] \in FirstLines

\* C20, amended: the items put first are the valid core items of confidence
\* 0.9 or more, at most min(4, maxLines) of them by descending confidence, and
\* their lines precede every line of the other tiers; when two of them have
\* equal lines the text has one line for both, so that the first
\* min(4, maxLines) lines are theirs only as far as their lines differ.
C20_CoreSureFirstWhereDistinct ==
    rPhase = "answered" =>
        /\ CoreSurePickedFirst
        /\ CoreSureLinesFirst
        /\ \A i \in 1..Cardinality(FirstLines) : LinesOf(rOut)[i] \in FirstLines

\* Five core items of confidence 0.9 or more, two of them with one content;
\* four are put first, and lines of the other tiers follow.
C20_Witness ==
    /\ rPhase = "answered"
    /\ Cardinality(CoreSure) = 5
    /\ rMax = 5
    /\ Cardinality(FirstLines) = 3
    /\ Len(rPicked) = 5
    /\ Len(LinesOf(rOut)) = 4

----------------------------------------------------------------------------
(* Claims about the recall without a query embedding *)

\* The valid items of the bank, by position.
ValidAt == {i \in 1..Len(rBank) : Unexpired(rBank[i], now)}

\* The picked items after those put first are in the order of the fallback
\* comparator, and no valid item left out sorts before one of them.
FallbackFillsInOrder ==
    /\ Len(rPicked) = Min2(rMax, Cardinality(ValidAt))
    /\ \A i \in 1..Len(rPicked) : \E k \in ValidAt : rPicked[i] = rBank[k]
    /\ \A i, j \in (PutFirst + 1)..Len(rPicked) :
          i < j => ~PruneBefore(rPicked[j], rPicked[i])
    /\ \A i \in (PutFirst + 1)..Len(rPicked) : \A k \in ValidAt :
          rBank[k] \notin RangeOf(rPicked) => ~PruneBefore(rBank[k], rPicked[i])

\* C21: when getEmbedding resolves to null for the query,
\* getRelevantMemoryLines asks for no item embedding, leaves the vector cache
\* as it was, and returns the confident core items followed by the valid
\* items in the order (tier, confidence, timesSeen), all descending, without
\* equal lines and within maxLines.
C21_FallbackWithoutQuery ==
    [][(rPhase' = "answered" /\ rQuery.isNull) =>
          /\ rAsked' = <<>>
          /\ rVectors' = rVectors
          /\ CoreSurePickedFirst'
          /\ FallbackFillsInOrder'
          /\ rOut' = JoinLines(dedupeArray(
                        [i \in 1..Len(rPicked') |-> RenderLine(rPicked'[i])], 200))]_vars

\* Without a query embedding and with a vector in the cache, a confident core
\* item was put first and an item of the fallback tier after it.
C21_Witness ==
    /\ rPhase = "answered"
    /\ rQuery.isNull
    /\ rVectors # <<>>
    /\ PutFirst = 1
    /\ Len(rPicked) = 2
    /\ rPicked[2].permanence # "core"

----------------------------------------------------------------------------
(* Claims about atomicWriteJson *)

\* The writers between the opening of the temporary file of f and its rename.
UsingTmp(f) ==
    {w \in Writers : dStage[w] \in (IF f = "vectors" THEN {1, 2} ELSE {4, 5})}

\* C22: wherever the process stops during atomicWriteJson, the file at the
\* final path holds the whole previous document or the whole new one, never a
\* part of one; and no two writers use the same temporary file at one time.
C22_OldOrNewDocument ==
    /\ [](\A f \in Files :
            /\ disk[FinalPath(f)].whole
            /\ Cardinality(UsingTmp(f)) <= 1)
    /\ [][\A f \in Files :
            \/ disk'[FinalPath(f)] = disk[FinalPath(f)]
            \/ disk'[FinalPath(f)] = Document(dRunning, dSaves, TRUE)]_vars

\* The process has stopped inside a writeFileSync of the second save: the
\* temporary file holds a part of the new document, the final path the first.
C22_Witness ==
    /\ ~dUp
    /\ \E f \in Files :
        /\ disk[TmpPath(f)].n = 2
        /\ ~disk[TmpPath(f)].whole
        /\ disk[FinalPath(f)] = Document(disk[FinalPath(f)].by, 1, TRUE)
        /\ disk[FinalPath(f)].by \in Writers

----------------------------------------------------------------------------
(* Claims about the tag of a merged item *)

\* C23: a merge of an existing key overwrites the item's emotion and
\* intensity with the incoming ones (normalized, clamped) when the existing
\* emotion is neutral or the incoming intensity is at least the existing
\* one, and leaves them otherwise; also when the incoming emotion is neutral.
C23_TagOverwrittenByIntensity ==
    (call.fn = "saveUserMemory" /\ call.done) =>
        LET old == call.item
            new == call.items[1]
            emo == normalizeEmotion(call.emotion)
            inten == clampInt(call.intensity, 1, 3)
        IN  IF old.emotion = "neutral" \/ inten >= old.intensity
              THEN new.emotion = emo /\ new.intensity = inten
              ELSE new.emotion = old.emotion /\ new.intensity = old.intensity

----------------------------------------------------------------------------
(* Claims about the expiry and the tier of merged items *)

\* C24: every item of the bank that is not core has
\* expiresAt = lastSeen + TTL, 180 days if it is sticky and 14 if it is
\* ephemeral, with the permanence the last merge gave it; a later merge
\* leaves no earlier expiry behind.
C24_ExpiryFollowsLastSeen ==
    \A i \in 1..Len(items) :
        /\ items[i].permanence = "sticky" => items[i].expiresAt = items[i].lastSeen + 180
        /\ items[i].permanence = "ephemeral" => items[i].expiresAt = items[i].lastSeen + 14

\* An item created before the clock advanced has been merged again after it,
\* is still not core, and expires 180 days after that merge; another item was
\* created ephemeral after the clock advanced.
C24_Witness ==
    /\ \E i \in 1..Len(items) :
          /\ items[i].createdAt < items[i].lastSeen
          /\ items[i].permanence = "sticky"
          /\ items[i].expiresAt = items[i].lastSeen + 180
    /\ \E j \in 1..Len(items) :
          /\ items[j].permanence = "ephemeral"
          /\ items[j].createdAt > 0

\* C29: an item of the bank that is ephemeral has been seen once, and one
\* that has been seen four times or more is core.
C29_SeenTwiceNotEphemeral ==
    \A i \in 1..Len(items) :
        /\ items[i].permanence = "ephemeral" => items[i].timesSeen = 1
        /\ items[i].timesSeen >= 4 => items[i].permanence = "core"

\* An item created ephemeral has been seen twice and is sticky.
C29_Witness ==
    \E i \in 1..Len(items) :
        /\ initialPermanence(items[i].category, items[i].content) = "ephemeral"
        /\ items[i].timesSeen = 2
        /\ items[i].permanence = "sticky"
        /\ items[i].createdAt < items[i].lastSeen

----------------------------------------------------------------------------
(* Claims about the entries of the vector cache *)

\* C25: pruneMemoryBank and saveUserMemory neither delete nor overwrite an
\* entry of the vector cache that holds a non-empty vector: whatever the bank
\* does, such an entry is the same after the step as before it.
C25_EntriesKept ==
    [][\A k \in DOMAIN byKey :
          byKey[k] # <<>> => k \in DOMAIN byKey' /\ byKey'[k] = byKey[k]]_vars

\* The cache holds a vector that is not empty under the key of the call.
CallHit == call.key \in DOMAIN call.vectors /\ call.vectors[call.key] # <<>>

\* The cache of the call with vector v under its key and every other entry
\* as it was.
CallStored(v) ==
    /\ DOMAIN call.byKey = DOMAIN call.vectors \cup {call.key}
    /\ call.byKey[call.key] = v
    /\ \A k \in DOMAIN call.vectors : k # call.key => call.byKey[k] = call.vectors[k]

\* C26: ensureItemEmbeddingWithCache returns the cached vector, asks nothing
\* and leaves the cache alone when the cache holds a non-empty vector for the
\* item's key; otherwise it asks the provider, and a vector it gets is stored
\* under the key and returned, while without an answer it returns null and
\* the cache is unchanged. setVectorInCache with an empty array or with a
\* value that is not an array changes nothing.
C26_CacheBeforeProvider ==
    /\ (call.fn = "ensureItemEmbeddingWithCache" /\ call.done) =>
          IF CallHit
            THEN /\ ~call.asked
                 /\ call.emb = Embedding(call.vectors[call.key])
                 /\ call.byKey = call.vectors
            ELSE /\ call.asked
                 /\ call.answer.isNull =>
                       call.emb.isNull /\ call.byKey = call.vectors
                 /\ (~call.answer.isNull /\ call.answer.vec # <<>>) =>
                       call.emb = call.answer /\ CallStored(call.answer.vec)
                 /\ (~call.answer.isNull /\ call.answer.vec = <<>>) =>
                       call.byKey = call.vectors
    /\ (call.fn = "setVectorInCache" /\ call.done
          /\ (call.answer.isNull \/ call.answer.vec = <<>>)) =>
          call.byKey = call.vectors

\* A call that found a vector in the cache while the provider would have
\* answered another one, and in the same reachable set a call that missed.
C26_Witness ==
    /\ call.fn = "ensureItemEmbeddingWithCache"
    /\ call.done
    /\ CallHit
    /\ call.vectors[call.key] = <<3>>
    /\ call.answer = Embedding(<<2>>)
    /\ call.emb = Embedding(<<3>>)
    /\ call.byKey = call.vectors
    /\ Cardinality(DOMAIN call.vectors) = 2

----------------------------------------------------------------------------
(* Claims about the number of lines recalled *)

\* The valid items of the bank have keys, no two of them the same key, and
\* no two of them the same content once it is normalized.
ValidDistinct ==
    \A i \in ValidAt :
        /\ rBank[i].key # NoKey
        /\ \A j \in ValidAt :
              i # j => /\ rBank[i].key # rBank[j].key
                       /\ normText(rBank[i].content) # normText(rBank[j].content)

\* C27: when the valid items have distinct keys and distinct normalized
\* contents, getRelevantMemoryLines picks min(maxLines, number of valid
\* items) items and returns one line for each of them, whichever item
\* embeddings the provider fails to produce.
C27_EverySlotFilled ==
    (rPhase = "answered" /\ ValidDistinct) =>
        /\ Len(rPicked) = Min2(rMax, Cardinality(ValidAt))
        /\ rOut = JoinLines([i \in 1..Len(rPicked) |-> Trim(RenderLine(rPicked[i]))])

\* The provider answered for one item and failed for others, more items are
\* valid than maxLines, and the last line is of an item that has no embedding
\* and is not put first: the fallback filled the slot.
C27_Witness ==
    /\ rPhase = "answered"
    /\ ValidDistinct
    /\ ~rQuery.isNull
    /\ \E k \in RangeOf(rAsked) : ~rOracle[k].isNull
    /\ \E k \in RangeOf(rAsked) : rOracle[k].isNull
    /\ Cardinality(ValidAt) > rMax
    /\ rMax >= 2
    /\ Len(rPicked) = rMax
    /\ rOracle[rPicked[rMax].key].isNull
    /\ ~(rPicked[rMax].permanence = "core" /\ clamp01(rPicked[rMax].confidence) >= 90)

\* C28: no item picked by getRelevantMemoryLines is a non-core item whose
\* expiresAt is set and not later than the time of the recall, the text is
\* made of the lines of the picked items, which are items of the bank, and
\* the bank is the same after the call as before it.
C28_NoExpiredLine ==
    [][rPhase' = "answered" =>
          /\ \A i \in 1..Len(rPicked') :
                /\ rPicked'[i] \in RangeOf(rBank)
                /\ ~(/\ rPicked'[i].permanence # "core"
                     /\ rPicked'[i].expiresAt # NULL
                     /\ rPicked'[i].expiresAt <= now)
          /\ rOut' = JoinLines(SliceTo(dedupeArray([i \in 1..Len(rPicked') |->
                                                      RenderLine(rPicked'[i])], 200),
                                       rMax))
          /\ rBank' = rBank]_vars

\* The bank is as a prune one day before the recall leaves it and holds an
\* item that expires at the time of the recall; a line is recalled, a slot
\* stays open, and the item is not picked.
C28_Witness ==
    /\ rPhase = "answered"
    /\ rBank = pruneMemoryBank(rBank, now - 1)
    /\ \E i \in 1..Len(rBank) :
          /\ rBank[i].permanence # "core"
          /\ rBank[i].expiresAt = now
          /\ rBank[i] \notin RangeOf(rPicked)
    /\ Len(rPicked) = 1
    /\ rMax = 2

----------------------------------------------------------------------------
(* Claims about the progress of the gate *)

\* Requests that have reached the gate and have not left the handler.
Unfinished == {r \in Requests : pc[r] \notin {"idle", "done"}}

\* C30: the gate cannot deadlock: in every reachable state in which some
\* request has not left the handler, one of the requests in the handler can
\* take its next step.
C30_NoDeadlock ==
    Unfinished # {} => \E r \in Unfinished : ENABLED Advance(r)

\* Every permit of the global semaphore is held by a request of one
\* identity; one of them runs, every other one is queued on the identity's
\* semaphore with its global permit, and a further request of the same
\* identity is queued on the global semaphore.
C30_Witness ==
    \E u \in Users :
        LET holders == {r \in Unfinished : userOf[r] = u /\ permits[r] # <<>>}
        IN  /\ Cardinality(holders) = GLOBAL_CONCURRENCY
            /\ gCurrent = GLOBAL_CONCURRENCY
            /\ Cardinality({r \in holders : pc[r] = "uWait"}) = GLOBAL_CONCURRENCY - 1
            /\ \E r \in holders : permits[r] = <<"gAcq", "uAcq">>
            /\ \E q \in Unfinished : userOf[q] = u /\ pc[q] = "gWait"

----------------------------------------------------------------------------
(* Claims about the counter of a semaphore *)

\* Requests whose promise a release has resolved and that have not resumed.
WokenPending(u) == {r \in Requests : pc[r] = "uWoken" /\ userOf[r] = u}

\* C31: the counter of every semaphore is between 0 and its max, and when no
\* woken waiter of the semaphore is waiting to resume, the counter is the
\* number of callers that have returned from acquire() and have not called
\* release().
C31_CounterIsHolders ==
    /\ 0 <= gCurrent /\ gCurrent <= GLOBAL_CONCURRENCY
    /\ {r \in Requests : pc[r] = "gWoken"} = {} =>
          gCurrent = Cardinality(GlobalHolders)
    /\ \A u \in Users :
          /\ 0 <= uCurrent[u] /\ uCurrent[u] <= USER_CONCURRENCY
          /\ WokenPending(u) = {} => uCurrent[u] = Cardinality(UserHolders(u))

----------------------------------------------------------------------------
(* Claims about the daily jobs *)

\* C32: for every day key each daily job calls the chat provider at most
\* once, and once a job has called it for a day key, whatever the answer
\* was, the job's dayKey is that key (or a later one).
C32_OnceADay ==
    \A j \in JobNames, d \in Days :
        /\ daily.calls[j][d] <= 1
        /\ daily.calls[j][d] >= 1 => daily.dayKey[j] >= d

====
